---- MODULE Spec2Model ----
(***************************************************************************)
(* Verification model of the scraper's fetch orchestration:                *)
(*   - ProxyManager            (app/core/proxy_manager.py)                 *)
(*   - request rate limiting   (scrape_* entry points of app/services)     *)
(*   - Indeed fetch/retry/dedup/traversal loop (_scrape_sync_enhanced)     *)
(*   - generic career page result bounding (scrape_generic_career_page)    *)
(***************************************************************************)
EXTENDS Integers, Sequences, FiniteSets, TLC

(***************************************************************************)
(* Bounds of the model                                                     *)
(***************************************************************************)
\* largest proxy pool explored
MaxProxies == 3
\* cap on a single proxy's failure counter (the code's counter is unbounded)
MaxCount == 4
\* horizon of the model clock, in ticks
MaxTime == 3
\* rotation_interval constructor argument, in ticks
RotationInterval == 2
\* number of concurrent callers of the scrape entry points
NCallers == 3
\* horizon of the monotonic clock of the rate limiter, in quarter seconds
MaxClk == 24
\* longest delay of an asyncio.sleep wake-up past its deadline
MaxOversleep == 1
\* largest max_results a caller asks for
MaxResults == 3
\* largest number of job cards on one result page
MaxCards == 3
\* largest number of job elements on one page of a career site
MaxElements == 2
\* largest number of jobs the API endpoints of a career page return
MaxApiJobs == 1
\* largest page count a career page's pagination shows
MaxTotalPages == 3
\* largest max_pages given to handle_pagination
MaxPageCap == 6
\* largest max_scrolls given to handle_infinite_scroll
MaxScrolls == 4
\* largest page height read while scrolling
MaxHeight == 3
\* largest number of browsers created by overlapping requests
MaxDrivers == 4
\* largest number of URLs in a batch
MaxUrls == 3
\* largest max_results_per_url of a batch
MaxPerUrl == 2
\* largest total_max_results of a batch
MaxTotal == 3
\* last instant of the cache's clock
MaxCacheTime == 3
\* largest ttl given to set_cache
MaxTtl == 2
\* number of postings of a long result list
MaxPostings == 18
\* largest number of repeated postings at the head of a page of the list
MaxRepeated == 2
\* largest number of new postings on a page of the list
MaxFresh == 4
\* max_results of a search over a long result list
LongMaxResults == 20

(***************************************************************************)
(* ProxyManager                                                            *)
(***************************************************************************)
\* self.max_failures
max_failures == 3

VARIABLES
    nProxies,             \* len(self.proxy_urls)
    current_proxy_index,  \* self.current_proxy_index (0-based)
    proxy_failures,       \* self.proxy_failures, keyed by list position 0..n-1
    last_rotation_time,   \* self.last_rotation_time
    now,                  \* time.time()
    lastCall,             \* observation of the most recent ProxyManager call
    runStart,             \* index before the current run of forced rotations
    runSeq,               \* proxies returned by the current run of forced rotations
    markCount,            \* mark_proxy_failure calls per proxy while onlyFails
    onlyFails             \* no call other than mark_proxy_failure was made yet

proxyVars == <<nProxies, current_proxy_index, proxy_failures,
               last_rotation_time, now, lastCall, runStart, runSeq,
               markCount, onlyFails>>

Proxies == 0 .. (nProxies - 1)

\* the pool's mutable fields as one value
PoolState == [idx |-> current_proxy_index, fails |-> proxy_failures,
              lrt |-> last_rotation_time]

Healthy(fails, p) == fails[p] < max_failures

get_current_proxy == current_proxy_index

\* should_rotate as it would be with "time_elapsed > self.rotation_interval"
should_rotate_Strict(s, t) == (t - s.lrt) > RotationInterval

should_rotate(s, t) == (t - s.lrt) >= RotationInterval

reset_failures(n) == [p \in 0 .. (n - 1) |-> 0]

\* rotate_proxy as it would be without the health test of the next proxy
RECURSIVE RotateLoop_SkipHealthCheck(_, _, _, _)
RotateLoop_SkipHealthCheck(s, n, t, attempts) ==
    IF attempts < n
    THEN LET i == (s.idx + 1) % n
         IN [idx |-> i, fails |-> s.fails, lrt |-> t,
             ret |-> i, reset |-> FALSE, examined |-> attempts + 1]
    ELSE [idx |-> 0, fails |-> reset_failures(n), lrt |-> t,
          ret |-> 0, reset |-> TRUE, examined |-> attempts]

\* rotate_proxy as it would be if the index were advanced after the health
\* test instead of before it
RECURSIVE RotateLoop_AdvanceAfterCheck(_, _, _, _)
RotateLoop_AdvanceAfterCheck(s, n, t, attempts) ==
    IF attempts < n
    THEN IF s.fails[s.idx] < max_failures
         THEN [idx |-> s.idx, fails |-> s.fails, lrt |-> t,
               ret |-> s.idx, reset |-> FALSE, examined |-> attempts + 1]
         ELSE RotateLoop_AdvanceAfterCheck(
                  [s EXCEPT !.idx = (s.idx + 1) % n], n, t, attempts + 1)
    ELSE [idx |-> 0, fails |-> reset_failures(n), lrt |-> t,
          ret |-> 0, reset |-> TRUE, examined |-> attempts]

\* rotate_proxy as it would be if the reset left the index where the scan
\* ended instead of selecting index 0
RECURSIVE RotateLoop_KeepsIndexOnReset(_, _, _, _)
RotateLoop_KeepsIndexOnReset(s, n, t, attempts) ==
    IF attempts < n
    THEN LET i == (s.idx + 1) % n
             s1 == [s EXCEPT !.idx = i]
         IN IF s1.fails[i] < max_failures
            THEN [idx |-> i, fails |-> s1.fails, lrt |-> t,
                  ret |-> i, reset |-> FALSE, examined |-> attempts + 1]
            ELSE RotateLoop_KeepsIndexOnReset(s1, n, t, attempts + 1)
    ELSE [idx |-> s.idx, fails |-> reset_failures(n), lrt |-> t,
          ret |-> s.idx, reset |-> TRUE, examined |-> attempts]

\* the while loop of rotate_proxy: returns the pool after the call together
\* with the returned proxy, whether the pool-wide reset ran, and the number
\* of list positions examined
RECURSIVE RotateLoop(_, _, _, _)
RotateLoop(s, n, t, attempts) ==
    IF attempts < n
    THEN LET i == (s.idx + 1) % n
             s1 == [s EXCEPT !.idx = i]
         IN IF s1.fails[i] < max_failures
            THEN [idx |-> i, fails |-> s1.fails, lrt |-> t,
                  ret |-> i, reset |-> FALSE, examined |-> attempts + 1]
            ELSE RotateLoop(s1, n, t, attempts + 1)
    ELSE [idx |-> 0, fails |-> reset_failures(n), lrt |-> t,
          ret |-> 0, reset |-> TRUE, examined |-> attempts]

rotate_proxy(s, n, t, force) ==
    IF ~force /\ ~should_rotate(s, t)
    THEN [idx |-> s.idx, fails |-> s.fails, lrt |-> s.lrt,
          ret |-> s.idx, reset |-> FALSE, examined |-> 0]
    ELSE RotateLoop(s, n, t, 0)

\* mark_proxy_failure as it would be with "failures > self.max_failures"
mark_proxy_failure_StrictThreshold(s, n, t, p) ==
    IF p \in 0 .. (n - 1)
    THEN LET f1 == [s.fails EXCEPT ![p] = @ + 1]
             s1 == [s EXCEPT !.fails = f1]
         IN IF f1[p] > max_failures
            THEN [rotate_proxy(s1, n, t, TRUE) EXCEPT !.ret = -1]
            ELSE [idx |-> s1.idx, fails |-> f1, lrt |-> s1.lrt,
                  ret |-> -1, reset |-> FALSE, examined |-> 0]
    ELSE [idx |-> s.idx, fails |-> s.fails, lrt |-> s.lrt,
          ret |-> -1, reset |-> FALSE, examined |-> 0]

\* mark_proxy_failure(proxy_url); p = -1 stands for a URL that is not a key
\* of proxy_failures
mark_proxy_failure(s, n, t, p) ==
    IF p \in 0 .. (n - 1)
    THEN LET f1 == [s.fails EXCEPT ![p] = @ + 1]
             s1 == [s EXCEPT !.fails = f1]
         IN IF f1[p] >= max_failures
            THEN [rotate_proxy(s1, n, t, TRUE) EXCEPT !.ret = -1]
            ELSE [idx |-> s1.idx, fails |-> f1, lrt |-> s1.lrt,
                  ret |-> -1, reset |-> FALSE, examined |-> 0]
    ELSE [idx |-> s.idx, fails |-> s.fails, lrt |-> s.lrt,
          ret |-> -1, reset |-> FALSE, examined |-> 0]

\* mark_proxy_success as it would be if it reset the whole pool's counts
mark_proxy_success_ResetsAll(s, n, p) ==
    IF p \in 0 .. (n - 1)
    THEN [s EXCEPT !.fails = reset_failures(n)]
    ELSE s

\* mark_proxy_success(proxy_url); p = -1 stands for a URL that is not a key
\* of proxy_failures
mark_proxy_success(s, n, p) ==
    IF p \in 0 .. (n - 1)
    THEN [s EXCEPT !.fails = [s.fails EXCEPT ![p] = 0]]
    ELSE s

(***************************************************************************)
(* Request rate limiting of the scrape entry points                        *)
(***************************************************************************)
\* settings.MIN_DELAY = 2.0 s, in quarter seconds
MIN_DELAY == 8
\* upper end of random.uniform(0, 0.75), in quarter seconds
JITTER_MAX == 3

\* the entry points and the services that keep a _last_fetch/_request_lock
EntryPoints == {"indeed", "ziprecruiter", "ziprecruiter_enhanced", "generic"}
Limited == {"indeed", "ziprecruiter", "ziprecruiter_enhanced"}
Callers == 1 .. NCallers

VARIABLES
    clk,          \* time.monotonic()
    last_fetch,   \* _last_fetch of each service module
    lockHolder,   \* holder of each module's _request_lock (0 = unlocked)
    lockWaiters,  \* coroutines queued on each module's _request_lock
    cpc,          \* position of each caller
    centry,       \* entry point a caller came through
    cjitter,      \* the caller's jitter draw
    cwake,        \* end of the caller's asyncio.sleep
    cstart        \* instant the caller left the rate-limit section

rateVars == <<clk, last_fetch, lockHolder, lockWaiters, cpc, centry, cjitter,
              cwake, cstart>>

\* jitter drawn by an entry point: only scrape_indeed_selenium adds jitter
JitterDraws(m) == IF m = "indeed" THEN 0 .. JITTER_MAX ELSE {0}

\* wait as it would be if the time already elapsed were not subtracted
WaitTime_IgnoresElapsed(t, last, jitter) == MIN_DELAY + jitter - t

\* wait = settings.MIN_DELAY + jitter - (now - _last_fetch)
WaitTime(t, last, jitter) == MIN_DELAY + jitter - (t - last)

\* the lock test as it would be without mutual exclusion
CanAcquire_NoExclusion(m, c) == TRUE

\* asyncio.Lock.acquire succeeds at once when the lock is free and, if
\* coroutines are queued, the caller is the first of them
CanAcquire(m, c) ==
    /\ lockHolder[m] = 0
    /\ lockWaiters[m] = <<>> \/ Head(lockWaiters[m]) = c

\* the lock as it would be if it were released before asyncio.sleep
HolderDuringSleep_Released(c) == 0

\* "await asyncio.sleep(wait)" is inside "async with _request_lock": the
\* sleeping caller holds the lock
HolderDuringSleep(c) == c

RateInit ==
    /\ clk = 0
    /\ last_fetch = [m \in Limited |-> 0]
    /\ lockHolder = [m \in Limited |-> 0]
    /\ lockWaiters = [m \in Limited |-> <<>>]
    /\ cpc = [c \in Callers |-> "idle"]
    /\ centry = [c \in Callers |-> "none"]
    /\ cjitter = [c \in Callers |-> 0]
    /\ cwake = [c \in Callers |-> 0]
    /\ cstart = [c \in Callers |-> -1]

\* the body of "async with _request_lock" up to its first suspension: either
\* the caller goes to sleep holding the lock, or it stamps _last_fetch,
\* releases the lock and hands the scrape to the executor
EnterSection(c, m, waiters) ==
    \E j \in JitterDraws(m) :
        LET wait == WaitTime(clk, last_fetch[m], j)
        IN /\ cjitter' = [cjitter EXCEPT ![c] = j]
           /\ lockWaiters' = [lockWaiters EXCEPT ![m] = waiters]
           /\ IF wait > 0
              THEN /\ cpc' = [cpc EXCEPT ![c] = "sleeping"]
                   /\ cwake' = [cwake EXCEPT ![c] = clk + wait]
                   /\ lockHolder' = [lockHolder EXCEPT
                                       ![m] = HolderDuringSleep(c)]
                   /\ UNCHANGED <<last_fetch, cstart>>
              ELSE /\ cpc' = [cpc EXCEPT ![c] = "scraping"]
                   /\ last_fetch' = [last_fetch EXCEPT ![m] = clk]
                   /\ cstart' = [cstart EXCEPT ![c] = clk]
                   /\ UNCHANGED <<cwake, lockHolder>>

\* a request reaches scrape_indeed_selenium / scrape_ziprecruiter /
\* scrape_ziprecruiter_enhanced and finds the lock free or has to queue
\* (callers are numbered in the order of their arrival)
CallLimited(c) ==
    /\ cpc[c] = "idle"
    /\ \A d \in Callers : d < c => cpc[d] # "idle"
    /\ \E m \in Limited :
        /\ centry' = [centry EXCEPT ![c] = m]
        /\ IF CanAcquire(m, c)
           THEN EnterSection(c, m, lockWaiters[m])
           ELSE /\ cpc' = [cpc EXCEPT ![c] = "queued"]
                /\ lockWaiters' = [lockWaiters EXCEPT ![m] = Append(@, c)]
                /\ UNCHANGED <<last_fetch, lockHolder, cjitter, cwake, cstart>>
    /\ UNCHANGED clk

\* a request reaches scrape_generic_career_page, which starts scraping at once
CallGeneric(c) ==
    /\ cpc[c] = "idle"
    /\ \A d \in Callers : d < c => cpc[d] # "idle"
    /\ centry' = [centry EXCEPT ![c] = "generic"]
    /\ cpc' = [cpc EXCEPT ![c] = "scraping"]
    /\ cstart' = [cstart EXCEPT ![c] = clk]
    /\ UNCHANGED <<clk, last_fetch, lockHolder, lockWaiters, cjitter, cwake>>

\* a queued caller is woken by the release of the lock and acquires it
AcquireQueued(c) ==
    /\ cpc[c] = "queued"
    /\ CanAcquire(centry[c], c)
    /\ Head(lockWaiters[centry[c]]) = c
    /\ EnterSection(c, centry[c], Tail(lockWaiters[centry[c]]))
    /\ UNCHANGED <<clk, centry>>

\* asyncio.sleep(wait) returns, not before its deadline; the caller stamps
\* _last_fetch, leaves the "async with" block and starts the scrape
WakeUp(c) ==
    /\ cpc[c] = "sleeping"
    /\ clk >= cwake[c]
    /\ last_fetch' = [last_fetch EXCEPT ![centry[c]] = clk]
    /\ lockHolder' = [lockHolder EXCEPT
                        ![centry[c]] = IF @ = c THEN 0 ELSE @]
    /\ cpc' = [cpc EXCEPT ![c] = "scraping"]
    /\ cstart' = [cstart EXCEPT ![c] = clk]
    /\ cwake' = [cwake EXCEPT ![c] = 0]
    /\ UNCHANGED <<clk, lockWaiters, centry, cjitter>>

\* the monotonic clock advances; a sleeper is resumed at most MaxOversleep
\* after its deadline
ClockTick ==
    /\ clk < MaxClk
    /\ \E c \in Callers : cpc[c] # "scraping"
    /\ \A c \in Callers : cpc[c] = "sleeping" => clk < cwake[c] + MaxOversleep
    /\ clk' = clk + 1
    /\ UNCHANGED <<last_fetch, lockHolder, lockWaiters, cpc, centry, cjitter,
                   cwake, cstart>>

(***************************************************************************)
(* Block detection of the Indeed fetch loop                                *)
(***************************************************************************)
\* the substrings of page_html the fetch loop looks for
CloudflareMarkers == {"Checking your browser",
                      "Enable JavaScript and cookies to continue",
                      "challenge-platform", "<title>Just a moment"}
IndeedMarkers == {"id=mosaic-provider-jobcards",
                  "class=jobsearch-ResultsList", "data-jk="}
Markers == CloudflareMarkers \cup IndeedMarkers

\* a fetched page is the set of markers its HTML contains
has_cloudflare_indicators(page_html) ==
    \/ "Checking your browser" \in page_html
    \/ "Enable JavaScript and cookies to continue" \in page_html
    \/ ("challenge-platform" \in page_html
        /\ "<title>Just a moment" \in page_html)

has_indeed_content(page_html) ==
    \/ "id=mosaic-provider-jobcards" \in page_html
    \/ "class=jobsearch-ResultsList" \in page_html
    \/ "data-jk=" \in page_html

\* the classification as it would be without the content test
is_actually_blocked_IgnoresContent(page_html) ==
    has_cloudflare_indicators(page_html)

is_actually_blocked(page_html) ==
    has_cloudflare_indicators(page_html) /\ ~has_indeed_content(page_html)

VARIABLES
    page_html,    \* the page source under classification
    verdict       \* branch taken by the fetch loop: "none", "Blocked", "Usable"

classifyVars == <<page_html, verdict>>

ClassifyInit ==
    /\ page_html \in SUBSET Markers
    /\ verdict = "none"

\* the fetch loop classifies the page it just read
Classify ==
    /\ verdict = "none"
    /\ verdict' = IF is_actually_blocked(page_html) THEN "Blocked" ELSE "Usable"
    /\ UNCHANGED page_html

\* driver.get(url) loads another page
Reload ==
    /\ verdict # "none"
    /\ page_html' \in SUBSET Markers
    /\ verdict' = "none"

(***************************************************************************)
(* Job records and their fingerprint (_create_job_id)                      *)
(***************************************************************************)
\* A string is a sequence of tokens: words, single blanks, and the pieces of
\* a URL that _create_job_id looks at.  None and '' are both <<>>.
LowerTok(t) ==
    CASE t = "Dev" -> "dev"
      [] t = "Ops" -> "ops"
      [] t = "Acme" -> "acme"
      [] t = "NY" -> "ny"
      [] t = "K1" -> "k1"
      [] t = "Indeed.com" -> "indeed.com"
      [] OTHER -> t

\* str.lower()
Lower(str) == [i \in 1 .. Len(str) |-> LowerTok(str[i])]

\* str.strip()
RECURSIVE StripLeft(_)
StripLeft(str) ==
    IF str # <<>> /\ Head(str) = " " THEN StripLeft(Tail(str)) ELSE str

RECURSIVE StripRight(_)
StripRight(str) ==
    IF str # <<>> /\ str[Len(str)] = " "
    THEN StripRight(SubSeq(str, 1, Len(str) - 1))
    ELSE str

Strip(str) == StripRight(StripLeft(str))

\* ' '.join(str.split())
RECURSIVE JoinWords(_)
JoinWords(words) ==
    IF Len(words) <= 1 THEN words
    ELSE <<Head(words), " ">> \o JoinWords(Tail(words))

IsWord(t) == t # " "
CollapseBlanks(str) == JoinWords(SelectSeq(str, IsWord))

\* the part of str before the first occurrence of token sep
RECURSIVE Before(_, _)
Before(str, sep) ==
    IF str = <<>> \/ Head(str) = sep THEN <<>>
    ELSE <<Head(str)>> \o Before(Tail(str), sep)

\* the part of str after the first occurrence of token sep
RECURSIVE After(_, _)
After(str, sep) ==
    IF str = <<>> THEN <<>>
    ELSE IF Head(str) = sep THEN Tail(str) ELSE After(Tail(str), sep)

Contains(str, t) == \E i \in 1 .. Len(str) : str[i] = t

\* _create_job_id: the "indeed_" + job key of an Indeed URL with jk=, the
\* URL itself for another Indeed URL, else title|company|location, all
\* lower-cased, stripped and with runs of blanks collapsed
_create_job_id(job) ==
    LET title == Strip(Lower(job.title))
        company == Strip(Lower(job.company))
        location == Strip(Lower(job.location))
        job_url == Strip(Lower(job.url))
    IN IF job_url # <<>> /\ Contains(job_url, "indeed.com")
       THEN IF Contains(job_url, "jk=")
            THEN \* job_url.split('jk=')[1].split('&')[0]
                 <<"indeed_">> \o Before(Before(After(job_url, "jk="), "jk="), "&")
            ELSE job_url
       ELSE CollapseBlanks(title) \o <<"|">> \o CollapseBlanks(company)
                \o <<"|">> \o CollapseBlanks(location)

\* the job records the modelled site can show
MkJob(t, c, l, u) == [title |-> t, company |-> c, location |-> l, url |-> u]
JobDevOps   == MkJob(<<"Dev", " ", "Ops">>, <<"Acme">>, <<"NY">>, <<>>)
JobDevOps2  == MkJob(<<" ", "dev", " ", " ", "ops">>, <<"acme", " ">>, <<"ny">>, <<>>)
JobDev      == MkJob(<<"Dev">>, <<"Acme">>, <<"NY">>, <<>>)
JobViewK1   == MkJob(<<"Ops">>, <<"Acme">>, <<>>,
                     <<"https://", "indeed.com", "/viewjob?", "jk=", "K1", "&", "from=serp">>)
JobViewK1b  == MkJob(<<"Ops", " ", "Dev">>, <<>>, <<"NY">>,
                     <<"https://", "Indeed.com", "/rc/clk?", "jk=", "k1">>)
JobCompany  == MkJob(<<"Ops">>, <<"Acme">>, <<"NY">>,
                     <<"https://", "indeed.com", "/cmp/acme">>)
Jobs == {JobDevOps, JobDevOps2, JobDev, JobViewK1, JobViewK1b, JobCompany}
NoJob == [title |-> <<>>, company |-> <<>>, location |-> <<>>, url |-> <<>>]

\* the k-th posting of a long result list
Posting(k) == MkJob(<<"Posting", " ", ToString(k)>>, <<"Acme">>, <<"NY">>, <<>>)
Postings == {Posting(k) : k \in 1 .. MaxPostings}

\* self._create_job_id(job) for the jobs the site shows
job_id_of == [j \in Jobs \cup Postings |-> _create_job_id(j)]

\* the pool fields after a call whose outcome is r
Install(r) ==
    /\ current_proxy_index' = r.idx
    /\ proxy_failures' = r.fails
    /\ last_rotation_time' = r.lrt

(***************************************************************************)
(* The Indeed scrape session (_scrape_sync_enhanced)                       *)
(***************************************************************************)
\* settings.MAX_RETRIES
MAX_RETRIES == 3
\* max_pages of _scrape_sync_enhanced
max_pages == 15

\* A job card of a result page: whether _is_valid_job_card accepts it, the
\* job _extract_detailed_job_info_indeed returns for it (NoJob for None or
\* an exception), and whether the job passes the caller's filters.
MkCard(v, j, ok) == [valid |-> v, job |-> j, pass |-> ok]
RichCards ==
    {MkCard(TRUE, JobDevOps, TRUE), MkCard(TRUE, JobDevOps2, TRUE),
     MkCard(TRUE, JobDev, FALSE), MkCard(TRUE, JobViewK1, TRUE),
     MkCard(TRUE, JobCompany, TRUE), MkCard(FALSE, JobViewK1b, TRUE),
     MkCard(TRUE, NoJob, TRUE)}
SmallCards == {MkCard(TRUE, JobDevOps, TRUE), MkCard(TRUE, JobViewK1, FALSE)}

\* the pages a site showing the cards of pool can return
RECURSIVE SeqsUpTo(_, _)
SeqsUpTo(S, n) ==
    IF n = 0 THEN {<<>>}
    ELSE LET shorter == SeqsUpTo(S, n - 1)
         IN shorter \cup {Append(q, x) : q \in shorter, x \in S}

\* the result pages of the two sites of FetchInit
PagesOf == [pool \in {RichCards, SmallCards} |-> SeqsUpTo(pool, MaxCards)]

\* the HTML a navigation can return in the scrape session
SitePages == {{}, {"data-jk="}, {"Checking your browser"},
              {"Checking your browser", "data-jk="},
              {"challenge-platform", "<title>Just a moment"},
              {"challenge-platform"}}

VARIABLES
    spc,                     \* position of the scrape session
    max_results,             \* argument of scrape_indeed_selenium
    jobs,                    \* jobs
    seen_job_ids,            \* seen_job_ids
    all_jobs_before_filter,  \* all_jobs_before_filter
    page,                    \* page
    retries,                 \* retries of the current fetch loop
    navs,                    \* driver.get(url) calls made by the current fetch loop
    envFailed,               \* a browser call of this session raised
    fetchedAfterMax,         \* a page was requested while len(jobs) >= max_results
    firstPass,               \* fingerprint -> did its first submitted record pass the filters
    droppedSame,             \* a record repeating a fingerprint of its own page was dropped
    droppedCross,            \* a record repeating a fingerprint of an earlier page was dropped
    allDuplicates,           \* a page was parsed whose records were all seen before
    result,                  \* the list returned by the session
    driver,                  \* _driver: -1 for None, else the proxy it was created with
    cardPool                 \* the job cards the site can show

fetchVars == <<spc, max_results, jobs, seen_job_ids, all_jobs_before_filter,
               page, retries, navs, envFailed, fetchedAfterMax, firstPass,
               droppedSame, droppedCross, allDuplicates, result, driver,
               cardPool>>

Min(a, b) == IF a < b THEN a ELSE b
Max(a, b) == IF a > b THEN a ELSE b

\* jobs[:max_results] for a non-negative max_results
Truncate(list, n) == SubSeq(list, 1, Min(n, Len(list)))

\* get_driver(force_new): time-based rotation, reuse or replacement of the
\* module-level driver, creation with the current proxy
get_driver(pool, drv, n, t, force_new, alive, createOk) ==
    LET rot == n > 1 /\ should_rotate(pool, t)
        r == IF rot THEN rotate_proxy(pool, n, t, FALSE)
             ELSE [idx |-> pool.idx, fails |-> pool.fails, lrt |-> pool.lrt,
                   ret |-> pool.idx, reset |-> FALSE, examined |-> 0]
        force == force_new \/ rot
        kept == IF drv # -1 /\ ~force /\ alive THEN drv ELSE -1
    IN IF kept # -1
       THEN [pool |-> r, drv |-> kept, raised |-> FALSE]
       ELSE IF createOk
            THEN [pool |-> r, drv |-> r.idx, raised |-> FALSE]
            ELSE [pool |-> r, drv |-> -1, raised |-> TRUE]

\* the retry test as it would be with "retries > MAX_RETRIES"
RetriesExhausted_OneMore(r) == r > MAX_RETRIES

\* retries >= settings.MAX_RETRIES
RetriesExhausted(r) == r >= MAX_RETRIES

\* the fingerprints of the first five cards of a page
FirstFiveIds(cards) ==
    {job_id_of[cards[i].job] :
        i \in {k \in 1 .. Min(5, Len(cards)) : cards[k].job # NoJob}}

\* the number of the last 20 jobs before filtering whose id is in seen
recent_duplicates(allb, seen) ==
    Cardinality({i \in Max(1, Len(allb) - 19) .. Len(allb) :
                    job_id_of[allb[i]] \in seen})

\* observation: the record of fingerprint id reached the duplicate test
Submit(first, id, ok) ==
    IF \E pr \in first : pr[1] = id THEN first ELSE first \cup {<<id, ok>>}

\* the card loop body as it would be without "seen_job_ids.add(job_id)"
CardStep_NoSeenAdd(st, card, maxres, seen0) ==
    IF st.brk \/ ~card.valid \/ card.job = NoJob THEN st
    ELSE LET job == card.job
             st1 == IF job.url # <<>>
                    THEN [st EXCEPT !.aftermax = @ \/ Len(st.jobs) >= maxres]
                    ELSE st
             id == job_id_of[job]
             st2 == [st1 EXCEPT !.first = Submit(@, id, card.pass)]
         IN IF id \in st2.seen
            THEN [st2 EXCEPT !.dsame = @ \/ id \notin seen0,
                             !.dcross = @ \/ id \in seen0]
            ELSE LET st3 == [st2 EXCEPT !.allb = Append(@, job)]
                     st4 == IF card.pass
                            THEN [st3 EXCEPT !.jobs = Append(@, job),
                                             !.added = @ + 1]
                            ELSE st3
                 IN [st4 EXCEPT !.brk = Len(st4.jobs) >= maxres]

\* the card loop body as it would be without the break at max_results
CardStep_NoBreak(st, card, maxres, seen0) ==
    IF st.brk \/ ~card.valid \/ card.job = NoJob THEN st
    ELSE LET job == card.job
             st1 == IF job.url # <<>>
                    THEN [st EXCEPT !.aftermax = @ \/ Len(st.jobs) >= maxres]
                    ELSE st
             id == job_id_of[job]
             st2 == [st1 EXCEPT !.first = Submit(@, id, card.pass)]
         IN IF id \in st2.seen
            THEN [st2 EXCEPT !.dsame = @ \/ id \notin seen0,
                             !.dcross = @ \/ id \in seen0]
            ELSE LET st3 == [st2 EXCEPT !.seen = @ \cup {id},
                                        !.allb = Append(@, job)]
                 IN IF card.pass
                    THEN [st3 EXCEPT !.jobs = Append(@, job), !.added = @ + 1]
                    ELSE st3

\* one iteration of "for i, card in enumerate(job_cards)"; seen0 is
\* seen_job_ids at the start of the page.  A job with a URL is first
\* completed from its detail page (two more driver.get calls).
CardStep(st, card, maxres, seen0) ==
    IF st.brk \/ ~card.valid \/ card.job = NoJob THEN st
    ELSE LET job == card.job
             st1 == IF job.url # <<>>
                    THEN [st EXCEPT !.aftermax = @ \/ Len(st.jobs) >= maxres]
                    ELSE st
             id == job_id_of[job]
             st2 == [st1 EXCEPT !.first = Submit(@, id, card.pass)]
         IN IF id \in st2.seen
            THEN [st2 EXCEPT !.dsame = @ \/ id \notin seen0,
                             !.dcross = @ \/ id \in seen0]
            ELSE LET st3 == [st2 EXCEPT !.seen = @ \cup {id},
                                        !.allb = Append(@, job)]
                     st4 == IF card.pass
                            THEN [st3 EXCEPT !.jobs = Append(@, job),
                                             !.added = @ + 1]
                            ELSE st3
                 IN [st4 EXCEPT !.brk = Len(st4.jobs) >= maxres]

RECURSIVE CardLoop(_, _, _, _)
CardLoop(st, cards, maxres, seen0) ==
    IF cards = <<>> THEN st
    ELSE CardLoop(CardStep(st, Head(cards), maxres, seen0), Tail(cards),
                  maxres, seen0)

\* the loop state on entry to the card loop of a page
LoopEntry == [jobs |-> jobs, seen |-> seen_job_ids,
              allb |-> all_jobs_before_filter, added |-> 0, brk |-> FALSE,
              aftermax |-> fetchedAfterMax, first |-> firstPass,
              dsame |-> droppedSame, dcross |-> droppedCross]

\* observation: the card loop extracts a record from some card of the page,
\* and the fingerprint of every record it extracts is in seen
AllSeen(cards, seen) ==
    LET recs == {i \in 1 .. Len(cards) :
                    cards[i].valid /\ cards[i].job # NoJob}
    IN /\ recs # {}
       /\ \A i \in recs : job_id_of[cards[i].job] \in seen

\* the body of the page loop as it would be without the two tests that end
\* the traversal at a page of duplicates
ProcessPage_NoDuplicateStop(cards, end_of_results) ==
    LET ids == FirstFiveIds(cards)
        st == CardLoop(LoopEntry, cards, max_results, seen_job_ids)
    IN IF cards = <<>> \/ end_of_results
       THEN [stop |-> TRUE, st |-> LoopEntry]
       ELSE IF Cardinality(ids) <= 2 /\ page > 0
       THEN [stop |-> TRUE, st |-> LoopEntry]
       ELSE IF page > 2 /\ recent_duplicates(st.allb, st.seen) > 15
       THEN [stop |-> TRUE, st |-> st]
       ELSE IF Len(st.jobs) >= max_results
       THEN [stop |-> TRUE, st |-> st]
       ELSE [stop |-> FALSE, st |-> st]

\* the body of the page loop after a usable page was fetched: the end-of-
\* results tests, the card loop and the tests that end the traversal
ProcessPage(cards, end_of_results) ==
    LET ids == FirstFiveIds(cards)
        st == CardLoop(LoopEntry, cards, max_results, seen_job_ids)
    IN IF cards = <<>> \/ end_of_results
       THEN [stop |-> TRUE, st |-> LoopEntry]
       ELSE IF ids # {} /\ ids \subseteq seen_job_ids
       THEN [stop |-> TRUE, st |-> LoopEntry]
       ELSE IF Cardinality(ids) <= 2 /\ page > 0
       THEN [stop |-> TRUE, st |-> LoopEntry]
       ELSE IF st.added = 0
       THEN [stop |-> TRUE, st |-> st]
       ELSE IF page > 2 /\ recent_duplicates(st.allb, st.seen) > 15
       THEN [stop |-> TRUE, st |-> st]
       ELSE IF Len(st.jobs) >= max_results
       THEN [stop |-> TRUE, st |-> st]
       ELSE [stop |-> FALSE, st |-> st]

\* "while len(jobs) < max_results and page < max_pages"
LoopGuard(js, pg, maxres) == Len(js) < maxres /\ pg < max_pages

SessionIdle ==
    /\ max_results = 0
    /\ jobs = <<>>
    /\ seen_job_ids = {}
    /\ all_jobs_before_filter = <<>>
    /\ page = 0
    /\ retries = 0
    /\ navs = 0
    /\ envFailed = FALSE
    /\ fetchedAfterMax = FALSE
    /\ firstPass = {}
    /\ droppedSame = FALSE
    /\ droppedCross = FALSE
    /\ allDuplicates = FALSE
    /\ result = <<>>

FetchIdle ==
    /\ spc = "idle"
    /\ SessionIdle
    /\ driver = -1
    /\ cardPool = {}

\* one proxy and a site with many different cards, or two proxies and a
\* site with two cards
FetchInit ==
    /\ spc = "idle"
    /\ SessionIdle
    /\ driver = -1
    /\ \/ nProxies = 1 /\ cardPool = RichCards
       \/ nProxies = 2 /\ cardPool = SmallCards

poolHistory == <<nProxies, now, lastCall, runStart, runSeq, markCount, onlyFails>>

\* scrape_indeed_selenium hands _scrape_sync_enhanced to the executor:
\* get_driver(), the local variables, the first test of the loop guard
StartSession(limits) ==
    /\ spc \in {"idle", "returned", "blocked", "failed"}
    /\ \E m \in limits, alive \in BOOLEAN, createOk \in BOOLEAN :
        LET g == get_driver(PoolState, driver, nProxies, now, FALSE, alive,
                            createOk)
        IN /\ Install(g.pool)
           /\ driver' = g.drv
           /\ max_results' = m
           /\ jobs' = <<>>
           /\ seen_job_ids' = {}
           /\ all_jobs_before_filter' = <<>>
           /\ page' = 0
           /\ retries' = 0
           /\ navs' = 0
           /\ envFailed' = g.raised
           /\ fetchedAfterMax' = FALSE
           /\ firstPass' = {}
           /\ droppedSame' = FALSE
           /\ droppedCross' = FALSE
           /\ allDuplicates' = FALSE
           /\ result' = <<>>
           /\ spc' = IF g.raised THEN "failed"
                     ELSE IF LoopGuard(<<>>, 0, m) THEN "nav" ELSE "finish"
    /\ UNCHANGED <<cardPool, poolHistory>>

StartScrape == StartSession(0 .. MaxResults)

sessionData == <<max_results, jobs, seen_job_ids, all_jobs_before_filter,
                 page, firstPass, droppedSame, droppedCross, allDuplicates,
                 result>>

\* one pass of the "while True" fetch loop: driver.get(url), the block test
\* and, for a blocked page, either the restart of the browser or
\* CloudflareBlockedError with its handler
Navigate ==
    /\ spc = "nav"
    /\ navs' = navs + 1
    /\ fetchedAfterMax' = (fetchedAfterMax \/ Len(jobs) >= max_results)
    /\ \/ \* driver.get or driver.page_source raises
          /\ spc' = "failed"
          /\ envFailed' = TRUE
          /\ UNCHANGED <<retries, driver, proxyVars>>
       \/ \E html \in SitePages :
            IF is_actually_blocked(html)
            THEN IF RetriesExhausted(retries)
                 THEN /\ spc' = "blocked"
                      /\ IF nProxies > 1
                         THEN Install(mark_proxy_failure(
                                  PoolState, nProxies, now, get_current_proxy))
                         ELSE UNCHANGED <<current_proxy_index, proxy_failures,
                                          last_rotation_time>>
                      /\ UNCHANGED <<retries, driver, envFailed, poolHistory>>
                 ELSE \E createOk \in BOOLEAN :
                        LET g == get_driver(PoolState, -1, nProxies, now,
                                            FALSE, TRUE, createOk)
                        IN /\ Install(g.pool)
                           /\ driver' = g.drv
                           /\ envFailed' = (envFailed \/ g.raised)
                           /\ spc' = IF g.raised THEN "failed" ELSE "nav"
                           /\ retries' = IF g.raised THEN retries
                                         ELSE retries + 1
                           /\ UNCHANGED poolHistory
            ELSE /\ spc' = "parse"
                 /\ UNCHANGED <<retries, driver, envFailed, proxyVars>>
    /\ UNCHANGED <<sessionData, cardPool>>

\* the rest of the page loop body for a usable page, up to the next test of
\* the loop guard
ParseCards(cards, end_of_results) ==
    /\ LET r == ProcessPage(cards, end_of_results)
           pg == IF r.stop THEN page ELSE page + 1
       IN /\ jobs' = r.st.jobs
          /\ seen_job_ids' = r.st.seen
          /\ all_jobs_before_filter' = r.st.allb
          /\ fetchedAfterMax' = r.st.aftermax
          /\ firstPass' = r.st.first
          /\ droppedSame' = r.st.dsame
          /\ droppedCross' = r.st.dcross
          /\ allDuplicates' = (~end_of_results /\ AllSeen(cards, seen_job_ids))
          /\ page' = pg
          /\ spc' = IF ~r.stop /\ LoopGuard(r.st.jobs, pg, max_results)
                    THEN "nav" ELSE "finish"
    /\ retries' = 0
    /\ navs' = 0
    /\ UNCHANGED <<max_results, envFailed, result, driver, cardPool,
                   proxyVars>>

ParsePage ==
    /\ spc = "parse"
    /\ \E cards \in PagesOf[cardPool], end_of_results \in BOOLEAN :
        /\ end_of_results => Len(cards) = 1
        /\ ParseCards(cards, end_of_results)

\* a page of a long result list: the first postings of the list repeated,
\* then postings that no earlier page showed
LongPage(repeated, fresh, shown) ==
    [i \in 1 .. repeated |-> MkCard(TRUE, Posting(i), TRUE)]
        \o [i \in 1 .. fresh |-> MkCard(TRUE, Posting(shown + i), TRUE)]

\* the rest of the page loop body for a page of a long result list
ParseLongPage ==
    /\ spc = "parse"
    /\ \E repeated \in 0 .. MaxRepeated, fresh \in 0 .. MaxFresh,
          end_of_results \in BOOLEAN :
        /\ Cardinality(seen_job_ids) + fresh <= MaxPostings
        /\ end_of_results => repeated + fresh = 1
        /\ ParseCards(LongPage(repeated, fresh, Cardinality(seen_job_ids)),
                      end_of_results)

\* a search with a large max_results
StartLongScrape == StartSession({MaxResults, LongMaxResults})

\* after the page loop: jobs[:max_results], the debug dump when nothing was
\* found (which can raise), mark_proxy_success and the return
Finish ==
    /\ spc = "finish"
    /\ \E dumpOk \in BOOLEAN :
        IF all_jobs_before_filter = <<>> /\ ~dumpOk
        THEN /\ spc' = "failed"
             /\ envFailed' = TRUE
             /\ UNCHANGED <<jobs, result, proxyVars>>
        ELSE /\ spc' = "returned"
             /\ jobs' = Truncate(jobs, max_results)
             /\ result' = Truncate(jobs, max_results)
             /\ IF nProxies > 1
                THEN LET q == mark_proxy_success(PoolState, nProxies,
                                                 get_current_proxy)
                     IN /\ proxy_failures' = q.fails
                        /\ UNCHANGED <<current_proxy_index, last_rotation_time>>
                ELSE UNCHANGED <<current_proxy_index, proxy_failures,
                                 last_rotation_time>>
             /\ UNCHANGED <<envFailed, poolHistory>>
    /\ UNCHANGED <<max_results, seen_job_ids, all_jobs_before_filter, page,
                   retries, navs, fetchedAfterMax, firstPass, droppedSame,
                   droppedCross, allDuplicates, driver, cardPool>>

(***************************************************************************)
(* The generic career-page scraper (scrape_generic_career_page)            *)
(***************************************************************************)
\* "Limit to 20 pages"
page_limit == 20
max_consecutive_failures == 2

\* A job of a career page: its title, whether is_valid_job_entry accepts it
\* and whether its text contains the search query.
MkGJob(t, v, m) == [title |-> t, valid |-> v, match |-> m]
GJobQa == MkGJob("qa engineer", TRUE, TRUE)
GJobDev == MkGJob("developer", TRUE, TRUE)
GJobDevOther == MkGJob("developer", TRUE, FALSE)
GJobApply == MkGJob("apply now", FALSE, TRUE)
\* extract_job_from_element returned None
NoGJob == MkGJob("", FALSE, FALSE)
Elements == {GJobQa, GJobDev, GJobDevOther, GJobApply, NoGJob}
ApiJobs == {GJobQa, GJobDevOther, GJobApply}

VARIABLES
    gpc,                   \* position of scrape_generic_career_page
    gen_max_results,       \* max_results of scrape_generic_career_page
    search_query,          \* whether a search query was given
    gen_jobs,              \* jobs of scrape_with_selenium
    seen_titles,           \* seen_titles
    page_num,              \* page_num of the pagination loop
    pages_end,             \* end of pages_to_scrape (exclusive)
    consecutive_failures,  \* consecutive_failures
    pagedAfterMax,         \* a pagination page was requested with max_results
                           \* returnable jobs already collected
    pagedAfterTarget,      \* ... with 2 * max_results jobs already collected
    gen_result             \* final_jobs

genVars == <<gpc, gen_max_results, search_query, gen_jobs, seen_titles,
             page_num, pages_end, consecutive_failures, pagedAfterMax,
             pagedAfterTarget, gen_result>>

\* max_results as scrape_with_selenium receives it: "Get extra to filter"
Target(m) == m * 2

\* filter_invalid_jobs
RECURSIVE filter_invalid_jobs(_)
filter_invalid_jobs(js) ==
    IF js = <<>> THEN <<>>
    ELSE IF Head(js).valid
         THEN <<Head(js)>> \o filter_invalid_jobs(Tail(js))
         ELSE filter_invalid_jobs(Tail(js))

\* "if search_lower in searchable_text"
RECURSIVE FilterBySearch(_)
FilterBySearch(js) ==
    IF js = <<>> THEN <<>>
    ELSE IF Head(js).match
         THEN <<Head(js)>> \o FilterBySearch(Tail(js))
         ELSE FilterBySearch(Tail(js))

\* the caller's part after scrape_with_selenium up to the final slice:
\* the search filter and the final validation
FilteredJobs(js, search) ==
    LET found == IF search /\ js # <<>> THEN FilterBySearch(js) ELSE js
    IN IF found # <<>> THEN filter_invalid_jobs(found) ELSE found

\* final_jobs = jobs[:max_results]
FinalJobs(js, m, search) == Truncate(FilteredJobs(js, search), m)

\* the element loop of page 1: "for i, element in enumerate(all_elements)"
RECURSIVE Page1Loop(_, _, _)
Page1Loop(st, elems, limit) ==
    IF elems = <<>> \/ Len(st.jobs) >= limit THEN st
    ELSE LET job == Head(elems)
             nxt == IF job = NoGJob \/ job.title \in st.seen \/ ~job.valid
                    THEN st
                    ELSE [jobs |-> Append(st.jobs, job),
                          seen |-> st.seen \cup {job.title}]
         IN Page1Loop(nxt, Tail(elems), limit)

\* extract_jobs_from_current_page: page_jobs and the seen_titles set, which
\* the function updates in place
RECURSIVE extract_jobs_from_current_page(_, _, _)
extract_jobs_from_current_page(st, elems, limit) ==
    IF elems = <<>> \/ Len(st.jobs) >= limit THEN st
    ELSE LET job == Head(elems)
             nxt == IF job = NoGJob \/ job.title \in st.seen \/ ~job.valid
                    THEN st
                    ELSE [jobs |-> Append(st.jobs, job),
                          seen |-> st.seen \cup {job.title}]
         IN extract_jobs_from_current_page(nxt, Tail(elems), limit)

\* "for job in page_jobs: if job.title not in seen_titles: ..."
RECURSIVE AddPageJobs(_, _)
AddPageJobs(st, page_jobs) ==
    IF page_jobs = <<>> THEN st
    ELSE LET job == Head(page_jobs)
             nxt == IF job.title \notin st.seen
                    THEN [jobs |-> Append(st.jobs, job),
                          seen |-> st.seen \cup {job.title}]
                    ELSE st
         IN AddPageJobs(nxt, Tail(page_jobs))

\* a pagination page was loaded: extraction and merge into jobs
AfterPage(js, seen, elems, limit) ==
    LET ex == extract_jobs_from_current_page(
                  [jobs |-> <<>>, seen |-> seen], elems, limit - Len(js))
    IN AddPageJobs([jobs |-> js, seen |-> ex.seen], ex.jobs)

\* the jobs of js the caller would return if the traversal ended now
Returnable(js, search) == Len(FilteredJobs(js, search))

GenIdle ==
    /\ gpc = "idle"
    /\ gen_max_results = 0
    /\ search_query = FALSE
    /\ gen_jobs = <<>>
    /\ seen_titles = {}
    /\ page_num = 1
    /\ pages_end = 1
    /\ consecutive_failures = 0
    /\ pagedAfterMax = FALSE
    /\ pagedAfterTarget = FALSE
    /\ gen_result = <<>>

\* scrape_generic_career_page up to the first pagination step: the API
\* endpoints, the elements of page 1, detect_pagination
GenStart ==
    /\ gpc = "idle"
    /\ \E m \in 0 .. MaxResults, search \in BOOLEAN,
          api \in SeqsUpTo(ApiJobs, MaxApiJobs),
          elems \in SeqsUpTo(Elements, MaxElements),
          kind \in {"none", "numbered", "next_only", "error"},
          current_page \in 1 .. 2, total_pages \in 1 .. MaxTotalPages :
        LET limit == Target(m)
            p1 == IF Len(api) < limit
                  THEN Page1Loop([jobs |-> api, seen |-> {}], elems, limit)
                  ELSE [jobs |-> api, seen |-> {}]
            start_page == IF current_page = 1 THEN 2 ELSE current_page + 1
            last == Min(total_pages + 1, page_limit)
            more == Len(p1.jobs) < limit
        IN /\ kind # "numbered" => current_page = 1 /\ total_pages = 1
           /\ gen_max_results' = m
           /\ search_query' = search
           /\ gen_jobs' = IF kind = "error" THEN api ELSE p1.jobs
           /\ seen_titles' = p1.seen
           /\ page_num' = IF kind = "numbered" THEN start_page ELSE 1
           /\ pages_end' = IF kind = "numbered" THEN last ELSE 1
           /\ gpc' = IF kind = "numbered" /\ more /\ start_page < last
                     THEN "numbered"
                     ELSE IF kind = "next_only" /\ more
                     THEN "next_only"
                     ELSE IF kind = "error" THEN "raised"
                     ELSE "finish"
    /\ consecutive_failures' = 0
    /\ pagedAfterMax' = FALSE
    /\ pagedAfterTarget' = FALSE
    /\ gen_result' = <<>>

\* what a pagination step leaves alone
genFrame == <<gen_max_results, search_query, pages_end, gen_result>>

\* the history of pagination requests
Paged ==
    /\ pagedAfterMax' =
         (pagedAfterMax \/ Returnable(gen_jobs, search_query) >= gen_max_results)
    /\ pagedAfterTarget' =
         (pagedAfterTarget \/ Len(gen_jobs) >= Target(gen_max_results))

\* one iteration of "for page_num in pages_to_scrape"
GenNumberedPage ==
    /\ gpc = "numbered"
    /\ Paged
    /\ \E success \in BOOLEAN, elems \in SeqsUpTo(Elements, MaxElements) :
        /\ ~success => elems = <<>>
        /\ LET r == AfterPage(gen_jobs, seen_titles, elems,
                              Target(gen_max_results))
           IN IF success
              THEN /\ gen_jobs' = r.jobs
                   /\ seen_titles' = r.seen
                   /\ page_num' = page_num + 1
                   /\ gpc' = IF page_num + 1 < pages_end
                                /\ Len(r.jobs) < Target(gen_max_results)
                             THEN "numbered" ELSE "finish"
              ELSE /\ gpc' = "finish"
                   /\ UNCHANGED <<gen_jobs, seen_titles, page_num>>
    /\ UNCHANGED <<genFrame, consecutive_failures>>

\* one iteration of "while len(jobs) < max_results and page_num < 20"
GenNextOnlyPage ==
    /\ gpc = "next_only"
    /\ Paged
    /\ page_num' = page_num + 1
    /\ \E success \in BOOLEAN, elems \in SeqsUpTo(Elements, MaxElements) :
        /\ ~success => elems = <<>>
        /\ LET r == AfterPage(gen_jobs, seen_titles, elems,
                              Target(gen_max_results))
               again(js) == Len(js) < Target(gen_max_results)
                            /\ page_num + 1 < page_limit
           IN IF success
              THEN /\ gen_jobs' = r.jobs
                   /\ seen_titles' = r.seen
                   /\ consecutive_failures' = 0
                   /\ gpc' = IF again(r.jobs) THEN "next_only" ELSE "finish"
              ELSE /\ consecutive_failures' = consecutive_failures + 1
                   /\ gpc' = IF consecutive_failures + 1
                                  >= max_consecutive_failures
                             THEN "finish"
                             ELSE IF again(gen_jobs) THEN "next_only"
                             ELSE "finish"
                   /\ UNCHANGED <<gen_jobs, seen_titles>>
    /\ UNCHANGED genFrame

\* the end of scrape_with_selenium (filter_invalid_jobs, skipped when an
\* exception ended the scrape) and the rest of scrape_generic_career_page
GenFinish ==
    /\ gpc \in {"finish", "raised"}
    /\ LET js == IF gpc = "finish" /\ gen_jobs # <<>>
                 THEN filter_invalid_jobs(gen_jobs) ELSE gen_jobs
       IN /\ gen_jobs' = js
          /\ gen_result' = FinalJobs(js, gen_max_results, search_query)
    /\ gpc' = "returned"
    /\ UNCHANGED <<gen_max_results, search_query, seen_titles, page_num,
                   pages_end, consecutive_failures, pagedAfterMax,
                   pagedAfterTarget>>

(***************************************************************************)
(* The result cache (app.core.caching)                                     *)
(***************************************************************************)
CacheKeys == {"k1", "k2"}
CacheData == {"jobsA", "jobsB"}
\* _cache.get(key) found nothing; also the None get_cache returns
NoEntry == [ts |-> -1, data |-> "None", ttl |-> -1]

VARIABLES
    cache,      \* _cache: key -> (ts, data, ttl), NoEntry for an absent key
    ctime,      \* time.time()
    lastGet     \* the last get_cache call: key, entry found, time, value
                \* returned; seq alternates from one call to the next

cacheVars == <<cache, ctime, lastGet>>

NoGet == [key |-> "none", entry |-> NoEntry, at |-> 0, ret |-> "None",
          seq |-> 0]

\* the expiry test as it would be if it allowed one more instant
Expired_Late(entry, t) == t - entry.ts > entry.ttl + 1

\* time.time() - ts > ttl
Expired(entry, t) == t - entry.ts > entry.ttl

CacheIdle ==
    /\ cache = [k \in CacheKeys |-> NoEntry]
    /\ ctime = 0
    /\ lastGet = NoGet

\* get_cache(key)
GetCache ==
    \E key \in CacheKeys :
        LET entry == cache[key]
            hit == entry # NoEntry /\ ~Expired(entry, ctime)
        IN /\ cache' = IF entry # NoEntry /\ Expired(entry, ctime)
                       THEN [cache EXCEPT ![key] = NoEntry]
                       ELSE cache
           /\ lastGet' = [key |-> key, entry |-> entry, at |-> ctime,
                          ret |-> IF hit THEN entry.data ELSE "None",
                          seq |-> 1 - lastGet.seq]
           /\ UNCHANGED ctime

\* set_cache(key, data, ttl)
SetCache ==
    \E key \in CacheKeys, data \in CacheData, ttl \in 0 .. MaxTtl :
        /\ cache' = [cache EXCEPT
                       ![key] = [ts |-> ctime, data |-> data, ttl |-> ttl]]
        /\ UNCHANGED <<ctime, lastGet>>

\* the clock advances between calls
CacheTick ==
    /\ ctime < MaxCacheTime
    /\ ctime' = ctime + 1
    /\ UNCHANGED <<cache, lastGet>>

(***************************************************************************)
(* handle_pagination                                                       *)
(***************************************************************************)
VARIABLES
    hpc,             \* position of handle_pagination
    hp_max_pages,    \* max_pages
    hp_type,         \* pagination_info['type']
    hp_current,      \* pagination_info['current_page']
    hp_total,        \* total_pages
    scraped_pages,   \* scraped_pages
    hp_page_num,     \* page_num
    hp_failures,     \* consecutive_failures
    nav_log          \* the navigations made: target page and outcome

pagVars == <<hpc, hp_max_pages, hp_type, hp_current, hp_total, scraped_pages,
             hp_page_num, hp_failures, nav_log>>

PagIdle ==
    /\ hpc = "idle"
    /\ hp_max_pages = 1
    /\ hp_type = "none"
    /\ hp_current = 1
    /\ hp_total = 1
    /\ scraped_pages = <<>>
    /\ hp_page_num = 1
    /\ hp_failures = 0
    /\ nav_log = <<>>

\* the end (exclusive) of pages_to_scrape
NumberedEnd(total, cap) == Min(total + 1, cap + 1)

\* the numbered loop makes another navigation: pages are left and
\* "len(scraped_pages) >= max_pages" is false
NumberedGoesOn(pn, total, cap, scraped) ==
    pn < NumberedEnd(total, cap) /\ Len(scraped) < cap

\* the numbered loop as it would be if a failed navigation did not end it
NumberedAfter_IgnoresFailure(success, pn, total, cap, scraped) ==
    NumberedGoesOn(pn, total, cap, scraped)

\* after a navigation of the numbered loop: "else: ... break" ends the loop
\* at a failed navigation
NumberedAfter(success, pn, total, cap, scraped) ==
    success /\ NumberedGoesOn(pn, total, cap, scraped)

\* the loop guard as it would be with "<="
NextOnlyGoesOn_Inclusive(pn, cap) == pn <= cap

\* "while page_num < max_pages"
NextOnlyGoesOn(pn, cap) == pn < cap

\* the failure test as it would be with a threshold of three
FailuresExhausted_Three(f) == f >= max_consecutive_failures + 1

\* "if consecutive_failures >= max_consecutive_failures"
FailuresExhausted(f) == f >= max_consecutive_failures

\* handle_pagination up to the first navigation: scraped_pages = [1],
\* detect_pagination, the choice of the loop
HpStart ==
    /\ hpc = "idle"
    /\ \E cap \in 1 .. MaxPageCap,
          kind \in {"none", "numbered", "next_only"},
          total \in 1 .. MaxTotalPages, cur \in 1 .. MaxTotalPages :
        /\ cur <= total
        /\ kind # "numbered" => total = 1
        /\ hp_max_pages' = cap
        /\ hp_type' = kind
        /\ hp_current' = cur
        /\ hp_total' = total
        /\ hp_page_num' = IF kind = "numbered" THEN 2 ELSE 1
        /\ hpc' = IF kind = "numbered"
                     /\ NumberedGoesOn(2, total, cap, <<1>>)
                  THEN "numbered"
                  ELSE IF kind = "next_only" /\ NextOnlyGoesOn(1, cap)
                  THEN "next_only"
                  ELSE "done"
    /\ scraped_pages' = <<1>>
    /\ hp_failures' = 0
    /\ nav_log' = <<>>

\* one iteration of "for page_num in pages_to_scrape" past page 1
HpNumberedStep ==
    /\ hpc = "numbered"
    /\ \E success \in BOOLEAN :
        LET scraped == IF success THEN Append(scraped_pages, hp_page_num)
                       ELSE scraped_pages
        IN /\ nav_log' = Append(nav_log, [target |-> hp_page_num,
                                          ok |-> success])
           /\ scraped_pages' = scraped
           /\ hp_page_num' = hp_page_num + 1
           /\ hpc' = IF NumberedAfter(success, hp_page_num + 1, hp_total,
                                      hp_max_pages, scraped)
                     THEN "numbered" ELSE "done"
    /\ UNCHANGED <<hp_max_pages, hp_type, hp_current, hp_total, hp_failures>>

\* one iteration of "while page_num < max_pages"
HpNextOnlyStep ==
    /\ hpc = "next_only"
    /\ \E success \in BOOLEAN :
        LET pn == hp_page_num + 1
            f == IF success THEN 0 ELSE hp_failures + 1
        IN /\ nav_log' = Append(nav_log, [target |-> pn, ok |-> success])
           /\ hp_page_num' = pn
           /\ scraped_pages' = IF success THEN Append(scraped_pages, pn)
                               ELSE scraped_pages
           /\ hp_failures' = f
           /\ hpc' = IF ~success /\ FailuresExhausted(f) THEN "done"
                     ELSE IF NextOnlyGoesOn(pn, hp_max_pages) THEN "next_only"
                     ELSE "done"
    /\ UNCHANGED <<hp_max_pages, hp_type, hp_current, hp_total>>

(***************************************************************************)
(* handle_infinite_scroll                                                  *)
(***************************************************************************)
VARIABLES
    scpc,              \* position of handle_infinite_scroll
    max_scrolls,       \* max_scrolls
    last_height,       \* last_height
    no_change_count,   \* no_change_count
    height_log         \* the heights read, the first before any scroll

scrollVars == <<scpc, max_scrolls, last_height, no_change_count, height_log>>

ScrollIdle ==
    /\ scpc = "idle"
    /\ max_scrolls = 0
    /\ last_height = 1
    /\ no_change_count = 0
    /\ height_log = <<>>

\* the test as it would be if every reading that is not larger counted
NoChange_NotLarger(new_height, last) == new_height <= last

\* "if new_height == last_height"
NoChange(new_height, last) == new_height = last

\* the first reading of the height, before "for scroll_num in range(max_scrolls)"
ScrollStart ==
    /\ scpc = "idle"
    /\ \E n \in 0 .. MaxScrolls, h \in 1 .. MaxHeight :
        /\ max_scrolls' = n
        /\ last_height' = h
        /\ height_log' = <<h>>
        /\ scpc' = IF n > 0 THEN "scrolling" ELSE "done"
    /\ no_change_count' = 0

\* one iteration of the scroll loop
ScrollStep ==
    /\ scpc = "scrolling"
    /\ \E new_height \in 1 .. MaxHeight :
        LET cnt == IF NoChange(new_height, last_height)
                   THEN no_change_count + 1 ELSE 0
        IN /\ height_log' = Append(height_log, new_height)
           /\ no_change_count' = cnt
           /\ IF NoChange(new_height, last_height) /\ cnt >= 2
              THEN /\ scpc' = "done"
                   /\ UNCHANGED last_height
              ELSE /\ last_height' = new_height
                   /\ scpc' = IF Len(height_log) < max_scrolls
                              THEN "scrolling" ELSE "done"
    /\ UNCHANGED max_scrolls

(***************************************************************************)
(* scrape_multiple_career_pages                                            *)
(***************************************************************************)
\* jobs a career page yields: title and company
BJobQa == [title |-> "QA", company |-> "Acme"]
BJobQaLower == [title |-> "qa", company |-> "Acme"]
BJobDev == [title |-> "Dev", company |-> "Beta"]
BatchJobs == {BJobQa, BJobQaLower, BJobDev}

VARIABLES
    bpc,                  \* position of scrape_multiple_career_pages
    n_urls,               \* len(urls)
    max_results_per_url,  \* max_results_per_url
    total_max_results,    \* total_max_results, 0 for None
    all_jobs,             \* all_jobs
    url_log,              \* per URL scraped: did the scrape raise, what it returned
    unique_jobs           \* the list returned

batchVars == <<bpc, n_urls, max_results_per_url, total_max_results, all_jobs,
               url_log, unique_jobs>>

BatchIdle ==
    /\ bpc = "idle"
    /\ n_urls = 0
    /\ max_results_per_url = 1
    /\ total_max_results = 0
    /\ all_jobs = <<>>
    /\ url_log = <<>>
    /\ unique_jobs = <<>>

\* (job.title.lower(), job.company.lower())
job_key(job) ==
    <<IF job.title = "QA" THEN "qa"
      ELSE IF job.title = "Dev" THEN "dev" ELSE job.title,
      IF job.company = "Acme" THEN "acme"
      ELSE IF job.company = "Beta" THEN "beta" ELSE job.company>>

\* the duplicate removal at the end of the batch
RECURSIVE RemoveDuplicates(_, _)
RemoveDuplicates(js, seen) ==
    IF js = <<>> THEN <<>>
    ELSE IF job_key(Head(js)) \in seen
         THEN RemoveDuplicates(Tail(js), seen)
         ELSE <<Head(js)>>
              \o RemoveDuplicates(Tail(js), seen \cup {job_key(Head(js))})

\* "if total_max_results and len(all_jobs) >= total_max_results"
TotalReached(total, all) == total # 0 /\ Len(all) >= total

\* remaining_slots
remaining_slots(per_url, total, all) ==
    IF total # 0 THEN Min(per_url, total - Len(all)) ELSE per_url

\* the loop as it would be if the except clause ended it
AfterUrl_AbortOnFailure(raised, i, n, total, all) ==
    ~raised /\ i < n /\ ~TotalReached(total, all)

\* the loop goes on to URL i + 1 after URL i, whether or not its scrape
\* raised: more URLs are left and the total is not reached
AfterUrl(raised, i, n, total, all) ==
    i < n /\ ~TotalReached(total, all)

\* the call up to the first URL
BatchStart ==
    /\ bpc = "idle"
    /\ \E n \in 0 .. MaxUrls, per_url \in 1 .. MaxPerUrl,
          total \in 0 .. MaxTotal :
        /\ n_urls' = n
        /\ max_results_per_url' = per_url
        /\ total_max_results' = total
        /\ bpc' = IF n > 0 THEN "running" ELSE "done"
    /\ all_jobs' = <<>>
    /\ url_log' = <<>>
    /\ unique_jobs' = <<>>

\* one iteration of "for index, url in enumerate(urls, 1)" that reaches
\* scrape_generic_career_page, which returns at most remaining_slots jobs
\* or raises; after the last iteration the duplicates are removed
BatchUrl ==
    /\ bpc = "running"
    /\ \E raised \in BOOLEAN, found \in SeqsUpTo(BatchJobs, MaxPerUrl) :
        LET slots == remaining_slots(max_results_per_url, total_max_results,
                                     all_jobs)
            all == IF raised THEN all_jobs ELSE all_jobs \o found
            index == Len(url_log) + 1
            more == AfterUrl(raised, index, n_urls, total_max_results, all)
        IN /\ Len(found) <= slots
           /\ raised => found = <<>>
           /\ all_jobs' = all
           /\ url_log' = Append(url_log, [raised |-> raised, jobs |-> found])
           /\ bpc' = IF more THEN "running" ELSE "done"
           /\ unique_jobs' = IF more THEN <<>> ELSE RemoveDuplicates(all, {})
    /\ UNCHANGED <<n_urls, max_results_per_url, total_max_results>>

(***************************************************************************)
(* ProxyManager calls made by two executor threads at once                 *)
(***************************************************************************)
Threads == {1, 2}

VARIABLES
    tpc,        \* position of each thread inside its ProxyManager call
    top,        \* the call a thread makes: "fail" or "rotate"
    tproxy,     \* proxy_url of the thread's mark_proxy_failure
    tval,       \* the value the thread has read and not yet written back
    tattempts,  \* attempts of the thread's rotate_proxy
    pool0       \* the pool when the two calls were made

raceVars == <<tpc, top, tproxy, tval, tattempts, pool0>>

RaceIdle ==
    /\ tpc = [t \in Threads |-> "idle"]
    /\ top = [t \in Threads |-> "none"]
    /\ tproxy = [t \in Threads |-> 0]
    /\ tval = [t \in Threads |-> 0]
    /\ tattempts = [t \in Threads |-> 0]
    /\ pool0 = [idx |-> 0, fails |-> <<>>, lrt |-> 0]

\* two workers reach mark_proxy_failure() or rotate_proxy(force=True)
RaceStart ==
    /\ \A t \in Threads : tpc[t] \in {"idle", "done"}
    /\ \A p \in Proxies : proxy_failures[p] <= MaxCount
    /\ \E ops \in [Threads -> {"fail", "rotate"}] :
        /\ top' = ops
        /\ tpc' = [t \in Threads |->
                     IF ops[t] = "fail" THEN "mf_read" ELSE "rot_read"]
    /\ tattempts' = [t \in Threads |-> 0]
    /\ pool0' = PoolState
    /\ UNCHANGED <<tproxy, tval, proxyVars>>

\* "proxy_url = self.get_current_proxy()" and the read of
\* "self.proxy_failures[proxy_url] += 1"
MfRead(t) ==
    /\ tpc[t] = "mf_read"
    /\ tproxy' = [tproxy EXCEPT ![t] = get_current_proxy]
    /\ tval' = [tval EXCEPT ![t] = proxy_failures[get_current_proxy]]
    /\ tpc' = [tpc EXCEPT ![t] = "mf_write"]
    /\ UNCHANGED <<top, tattempts, pool0, proxyVars>>

\* the write of "self.proxy_failures[proxy_url] += 1"
MfWrite(t) ==
    /\ tpc[t] = "mf_write"
    /\ proxy_failures' = [proxy_failures EXCEPT ![tproxy[t]] = tval[t] + 1]
    /\ tpc' = [tpc EXCEPT ![t] = "mf_check"]
    /\ UNCHANGED <<top, tproxy, tval, tattempts, pool0, nProxies,
                   current_proxy_index, last_rotation_time, now,
                   poolHistory>>

\* "failures = self.proxy_failures[proxy_url]" and the threshold test
MfCheck(t) ==
    /\ tpc[t] = "mf_check"
    /\ tpc' = [tpc EXCEPT ![t] = IF proxy_failures[tproxy[t]] >= max_failures
                                 THEN "rot_read" ELSE "done"]
    /\ UNCHANGED <<top, tproxy, tval, tattempts, pool0, proxyVars>>

\* "while attempts < max_attempts" and the read of
\* "self.current_proxy_index = (self.current_proxy_index + 1) % len(...)";
\* after the loop the reset of the pool
RotRead(t) ==
    /\ tpc[t] = "rot_read"
    /\ IF tattempts[t] < nProxies
       THEN /\ tval' = [tval EXCEPT ![t] = current_proxy_index]
            /\ tpc' = [tpc EXCEPT ![t] = "rot_write"]
            /\ UNCHANGED proxyVars
       ELSE /\ proxy_failures' = reset_failures(nProxies)
            /\ current_proxy_index' = 0
            /\ last_rotation_time' = now
            /\ tpc' = [tpc EXCEPT ![t] = "done"]
            /\ UNCHANGED <<tval, nProxies, now, poolHistory>>
    /\ UNCHANGED <<top, tproxy, tattempts, pool0>>

\* the write of the index and the health test of the proxy it selects
RotWrite(t) ==
    /\ tpc[t] = "rot_write"
    /\ LET i == (tval[t] + 1) % nProxies
       IN /\ current_proxy_index' = i
          /\ IF Healthy(proxy_failures, i)
             THEN /\ last_rotation_time' = now
                  /\ tpc' = [tpc EXCEPT ![t] = "done"]
                  /\ UNCHANGED tattempts
             ELSE /\ tattempts' = [tattempts EXCEPT ![t] = @ + 1]
                  /\ tpc' = [tpc EXCEPT ![t] = "rot_read"]
                  /\ UNCHANGED last_rotation_time
    /\ UNCHANGED <<top, tproxy, tval, pool0, nProxies, proxy_failures, now,
                   poolHistory>>

(***************************************************************************)
(* The module-level _driver under overlapping Indeed requests              *)
(***************************************************************************)
Workers == {1, 2}

VARIABLES
    module_driver,  \* _driver: the browser object of the module, 0 for None
    live,           \* the browser objects that were created and not quit
    created,        \* number of browser objects created so far
    wpc,            \* position of each executor thread
    wdriver,        \* the local variable driver of each thread
    wretries        \* the local variable retries of each thread

sharedVars == <<module_driver, live, created, wpc, wdriver, wretries>>

SharedIdle ==
    /\ module_driver = 0
    /\ live = {}
    /\ created = 0
    /\ wpc = [w \in Workers |-> "idle"]
    /\ wdriver = [w \in Workers |-> 0]
    /\ wretries = [w \in Workers |-> 0]

\* "driver = get_driver()" at the start of _scrape_sync_enhanced: the
\* module's browser is returned when it answers, else a new one is made
WorkerGetDriver(w) ==
    /\ wpc[w] \in {"idle", "returned", "blocked", "failed"}
    /\ IF module_driver # 0 /\ module_driver \in live
       THEN /\ wdriver' = [wdriver EXCEPT ![w] = module_driver]
            /\ UNCHANGED <<module_driver, live, created>>
       ELSE /\ created < MaxDrivers
            /\ created' = created + 1
            /\ module_driver' = created + 1
            /\ live' = live \cup {created + 1}
            /\ wdriver' = [wdriver EXCEPT ![w] = created + 1]
    /\ wretries' = [wretries EXCEPT ![w] = 0]
    /\ wpc' = [wpc EXCEPT ![w] = "nav"]

\* "driver.get(url)" and the block test of one thread: the call raises on
\* a browser that was quit; a blocked page makes the thread quit its
\* browser, clear _driver and call get_driver(), or give up
WorkerNavigate(w) ==
    /\ wpc[w] = "nav"
    /\ IF wdriver[w] \notin live
       THEN /\ wpc' = [wpc EXCEPT ![w] = "failed"]
            /\ UNCHANGED <<module_driver, live, created, wdriver, wretries>>
       ELSE \E blocked \in BOOLEAN :
              IF ~blocked
              THEN /\ wpc' = [wpc EXCEPT ![w] = "returned"]
                   /\ UNCHANGED <<module_driver, live, created, wdriver,
                                  wretries>>
              ELSE IF RetriesExhausted(wretries[w])
              THEN /\ wpc' = [wpc EXCEPT ![w] = "blocked"]
                   /\ UNCHANGED <<module_driver, live, created, wdriver,
                                  wretries>>
              ELSE /\ created < MaxDrivers
                   /\ created' = created + 1
                   /\ live' = (live \ {wdriver[w]}) \cup {created + 1}
                   /\ module_driver' = created + 1
                   /\ wdriver' = [wdriver EXCEPT ![w] = created + 1]
                   /\ wretries' = [wretries EXCEPT ![w] = @ + 1]
                   /\ UNCHANGED wpc

(***************************************************************************)
(* The cached routes (get_jobs, scrape_career_page_url)                    *)
(***************************************************************************)
\* settings.CACHE_TTL, in units of the cache's clock
CACHE_TTL == 2
\* what a scrape returns: an empty list or a list of jobs
ScrapeResults == {"[]", "jobsA", "jobsB"}

VARIABLES
    lastReq     \* the last request: key, entry found, time, scraper use, answer

routeVars == <<lastReq>>

NoReq == [key |-> "none", entry |-> NoEntry, at |-> 0, scraped |-> FALSE,
          raised |-> FALSE, ret |-> "None", seq |-> 0]

RouteIdle == lastReq = NoReq

\* "if cached:" as it would be with "if cached is not None:"
Truthy_NotNone(data) == data # "None"

\* "if cached:" is false for None and for an empty list
Truthy(data) == data # "None" /\ data # "[]"

\* a request to a cached route: get_cache, the scrape when the cached value
\* does not count, set_cache unless the scrape raised
RouteRequest ==
    \E key \in CacheKeys, raises \in BOOLEAN, found \in ScrapeResults :
        LET entry == cache[key]
            hit == entry # NoEntry /\ ~Expired(entry, ctime)
            cached == IF hit THEN entry.data ELSE "None"
            afterGet == IF entry # NoEntry /\ Expired(entry, ctime)
                        THEN [cache EXCEPT ![key] = NoEntry] ELSE cache
            scrape == ~Truthy(cached)
        IN /\ ~scrape => (~raises /\ found = "[]")
           /\ cache' = IF scrape /\ ~raises
                       THEN [afterGet EXCEPT
                               ![key] = [ts |-> ctime, data |-> found,
                                         ttl |-> CACHE_TTL]]
                       ELSE afterGet
           /\ lastReq' = [key |-> key, entry |-> entry, at |-> ctime,
                          scraped |-> scrape, raised |-> scrape /\ raises,
                          ret |-> IF ~scrape THEN cached
                                  ELSE IF raises THEN "HTTPException"
                                  ELSE found,
                          seq |-> 1 - lastReq.seq]
           /\ UNCHANGED <<ctime, lastGet>>

\* the variables of the components that follow the scrapers
moreVars == <<cacheVars, pagVars, scrollVars, batchVars, raceVars, sharedVars,
              routeVars>>
MoreIdle ==
    /\ CacheIdle /\ PagIdle /\ ScrollIdle /\ BatchIdle /\ RaceIdle
    /\ SharedIdle /\ RouteIdle

NoCall == [op |-> "none", arg |-> -1, force |-> FALSE, pre |-> <<>>,
           entry |-> <<>>, ret |-> -1, reset |-> FALSE, examined |-> 0]

ProxyInit ==
    /\ nProxies \in 1 .. MaxProxies
    /\ current_proxy_index = 0
    /\ proxy_failures = [p \in 0 .. (nProxies - 1) |-> 0]
    /\ now = 0
    /\ last_rotation_time = 0
    /\ lastCall = NoCall
    /\ runStart = 0
    /\ runSeq = <<>>
    /\ markCount = [p \in 0 .. (nProxies - 1) |-> 0]
    /\ onlyFails = TRUE

\* time passes between calls
Tick ==
    /\ now < MaxTime
    /\ now' = now + 1
    /\ UNCHANGED <<nProxies, current_proxy_index, proxy_failures,
                   last_rotation_time, lastCall, runStart, runSeq,
                   markCount, onlyFails>>

\* manager.rotate_proxy(force)
RotateProxy ==
    \E force \in BOOLEAN :
        LET r == rotate_proxy(PoolState, nProxies, now, force)
        IN /\ Install(r)
           /\ lastCall' = [op |-> "rotate", arg |-> -1, force |-> force,
                           pre |-> PoolState, entry |-> PoolState,
                           ret |-> r.ret, reset |-> r.reset,
                           examined |-> r.examined]
           /\ IF force
              THEN IF Len(runSeq) < nProxies
                   THEN /\ runSeq' = Append(runSeq, r.ret)
                        /\ runStart' = IF runSeq = <<>>
                                       THEN current_proxy_index ELSE runStart
                   ELSE /\ runSeq' = Append(Tail(runSeq), r.ret)
                        /\ runStart' = Head(runSeq)
              ELSE /\ runSeq' = <<>>
                   /\ runStart' = r.idx
           /\ onlyFails' = FALSE
           /\ markCount' = [q \in Proxies |-> 0]
           /\ UNCHANGED <<nProxies, now>>

\* manager.mark_proxy_failure(proxy_url); None defaults to the current proxy
MarkProxyFailure ==
    \E arg \in (Proxies \cup {-1, -2}) :
        LET p == IF arg = -2 THEN get_current_proxy ELSE arg
            r == mark_proxy_failure(PoolState, nProxies, now, p)
            f1 == IF p \in Proxies
                  THEN [proxy_failures EXCEPT ![p] = @ + 1]
                  ELSE proxy_failures
        IN /\ p \in Proxies => proxy_failures[p] < MaxCount
           /\ Install(r)
           /\ lastCall' = [op |-> "fail", arg |-> p, force |-> TRUE,
                           pre |-> PoolState,
                           entry |-> [PoolState EXCEPT !.fails = f1],
                           ret |-> -1, reset |-> r.reset,
                           examined |-> r.examined]
           /\ runSeq' = <<>>
           /\ runStart' = r.idx
           /\ markCount' = IF p \in Proxies /\ onlyFails
                           THEN [markCount EXCEPT
                                   ![p] = IF @ > max_failures THEN @ ELSE @ + 1]
                           ELSE markCount
           /\ UNCHANGED <<nProxies, now, onlyFails>>

\* manager.mark_proxy_success(proxy_url)
MarkProxySuccess ==
    \E arg \in (Proxies \cup {-1, -2}) :
        LET p == IF arg = -2 THEN get_current_proxy ELSE arg
            s == mark_proxy_success(PoolState, nProxies, p)
        IN /\ current_proxy_index' = s.idx
           /\ proxy_failures' = s.fails
           /\ last_rotation_time' = s.lrt
           /\ lastCall' = [op |-> "success", arg |-> p, force |-> FALSE,
                           pre |-> PoolState, entry |-> PoolState,
                           ret |-> -1, reset |-> FALSE, examined |-> 0]
           /\ runSeq' = <<>>
           /\ runStart' = s.idx
           /\ onlyFails' = FALSE
           /\ markCount' = [q \in Proxies |-> 0]
           /\ UNCHANGED <<nProxies, now>>

\* the variables of the proxy pool, the rate limiters, the block test and
\* the two scrapers
coreVars == <<proxyVars, rateVars, classifyVars, fetchVars, genVars>>

vars == <<coreVars, moreVars>>

\* values of the variables a specification does not use
ClassifyIdle == page_html = {} /\ verdict = "none"

\* the ProxyManager under arbitrary calls
ProxyNext ==
    \/ Tick /\ UNCHANGED <<rateVars, classifyVars, fetchVars, genVars, moreVars>>
    \/ RotateProxy /\ UNCHANGED <<rateVars, classifyVars, fetchVars, genVars, moreVars>>
    \/ MarkProxyFailure /\ UNCHANGED <<rateVars, classifyVars, fetchVars, genVars, moreVars>>
    \/ MarkProxySuccess /\ UNCHANGED <<rateVars, classifyVars, fetchVars, genVars, moreVars>>

Init ==
    ProxyInit /\ RateInit /\ ClassifyIdle /\ FetchIdle /\ GenIdle /\ MoreIdle

Spec == Init /\ [][ProxyNext]_vars

\* concurrent requests passing the rate-limit sections
RateNext ==
    \/ \E c \in Callers : CallLimited(c) /\ UNCHANGED <<proxyVars, classifyVars, fetchVars, genVars, moreVars>>
    \/ \E c \in Callers : CallGeneric(c) /\ UNCHANGED <<proxyVars, classifyVars, fetchVars, genVars, moreVars>>
    \/ \E c \in Callers : AcquireQueued(c) /\ UNCHANGED <<proxyVars, classifyVars, fetchVars, genVars, moreVars>>
    \/ \E c \in Callers : WakeUp(c) /\ UNCHANGED <<proxyVars, classifyVars, fetchVars, genVars, moreVars>>
    \/ ClockTick /\ UNCHANGED <<proxyVars, classifyVars, fetchVars, genVars, moreVars>>

\* the pool plays no part in rate limiting: one configured proxy
RateSpecInit == Init /\ nProxies = 1

RateSpec == RateSpecInit /\ [][RateNext]_vars

\* the block detector applied to every combination of markers; a second
\* page is then loaded
ClassifyNext ==
    \/ Classify /\ UNCHANGED <<proxyVars, rateVars, fetchVars, genVars, moreVars>>
    \/ Reload /\ UNCHANGED <<proxyVars, rateVars, fetchVars, genVars, moreVars>>

ClassifySpecInit ==
    ProxyInit /\ nProxies = 1 /\ RateInit /\ ClassifyInit /\ FetchIdle
    /\ GenIdle /\ MoreIdle

ClassifySpec == ClassifySpecInit /\ [][ClassifyNext]_vars

\* Indeed searches served one after another, or one career-page scrape
ScrapeNext ==
    \/ gpc = "idle" /\ StartScrape
         /\ UNCHANGED <<rateVars, classifyVars, genVars, moreVars>>
    \/ Navigate /\ UNCHANGED <<rateVars, classifyVars, genVars, moreVars>>
    \/ ParsePage /\ UNCHANGED <<rateVars, classifyVars, genVars, moreVars>>
    \/ Finish /\ UNCHANGED <<rateVars, classifyVars, genVars, moreVars>>
    \/ spc = "idle" /\ GenStart
         /\ UNCHANGED <<proxyVars, rateVars, classifyVars, fetchVars, moreVars>>
    \/ GenNumberedPage
         /\ UNCHANGED <<proxyVars, rateVars, classifyVars, fetchVars, moreVars>>
    \/ GenNextOnlyPage
         /\ UNCHANGED <<proxyVars, rateVars, classifyVars, fetchVars, moreVars>>
    \/ GenFinish
         /\ UNCHANGED <<proxyVars, rateVars, classifyVars, fetchVars, moreVars>>

ScrapeSpecInit ==
    ProxyInit /\ RateInit /\ ClassifyIdle /\ FetchInit /\ GenIdle
    /\ MoreIdle

ScrapeSpec == ScrapeSpecInit /\ [][ScrapeNext]_vars

\* Indeed searches over a long result list, served one after another
TraversalNext ==
    \/ StartLongScrape
         /\ UNCHANGED <<rateVars, classifyVars, genVars, moreVars>>
    \/ Navigate /\ UNCHANGED <<rateVars, classifyVars, genVars, moreVars>>
    \/ ParseLongPage
         /\ UNCHANGED <<rateVars, classifyVars, genVars, moreVars>>
    \/ Finish /\ UNCHANGED <<rateVars, classifyVars, genVars, moreVars>>

TraversalSpecInit == Init /\ nProxies = 1

TraversalSpec == TraversalSpecInit /\ [][TraversalNext]_vars

\* get_driver(force_new) as the scrape entry points call it: the driver is
\* kept, replaced or fails to start
GetDriver ==
    /\ spc = "idle"
    /\ \E force_new \in BOOLEAN, alive \in BOOLEAN, createOk \in BOOLEAN :
        LET g == get_driver(PoolState, driver, nProxies, now, force_new,
                            alive, createOk)
        IN /\ Install(g.pool)
           /\ driver' = g.drv
    /\ UNCHANGED <<spc, sessionData, retries, navs, envFailed,
                   fetchedAfterMax, cardPool, poolHistory>>

\* calls of get_driver while time passes and the pool is rotated and told
\* of failures
RotationNext ==
    \/ Tick /\ UNCHANGED <<rateVars, classifyVars, fetchVars, genVars, moreVars>>
    \/ RotateProxy
         /\ UNCHANGED <<rateVars, classifyVars, fetchVars, genVars, moreVars>>
    \/ MarkProxyFailure
         /\ UNCHANGED <<rateVars, classifyVars, fetchVars, genVars, moreVars>>
    \/ GetDriver /\ UNCHANGED <<rateVars, classifyVars, genVars, moreVars>>

\* one proxy, or two as in test_time_based_rotation
RotationSpecInit == Init /\ nProxies <= 2

RotationSpec == RotationSpecInit /\ [][RotationNext]_vars

\* the cache under arbitrary reads and writes while time passes
CacheNext ==
    \/ GetCache /\ UNCHANGED <<coreVars, pagVars, scrollVars, batchVars, raceVars,
                      sharedVars, routeVars>>
    \/ SetCache /\ UNCHANGED <<coreVars, pagVars, scrollVars, batchVars, raceVars,
                      sharedVars, routeVars>>
    \/ CacheTick /\ UNCHANGED <<coreVars, pagVars, scrollVars, batchVars, raceVars,
                      sharedVars, routeVars>>

CacheSpecInit == Init /\ nProxies = 1

CacheSpec == CacheSpecInit /\ [][CacheNext]_vars

\* one handle_pagination call under every detection result and every
\* sequence of navigation outcomes; a navigation that was started ends
PaginationNext ==
    \/ HpStart /\ UNCHANGED <<coreVars, cacheVars, scrollVars, batchVars, raceVars,
                      sharedVars, routeVars>>
    \/ HpNumberedStep /\ UNCHANGED <<coreVars, cacheVars, scrollVars, batchVars, raceVars,
                      sharedVars, routeVars>>
    \/ HpNextOnlyStep /\ UNCHANGED <<coreVars, cacheVars, scrollVars, batchVars, raceVars,
                      sharedVars, routeVars>>

PaginationSpecInit == Init /\ nProxies = 1

PaginationSpec ==
    PaginationSpecInit /\ [][PaginationNext]_vars /\ WF_vars(PaginationNext)

\* one handle_infinite_scroll call under every sequence of page heights
ScrollNext ==
    \/ ScrollStart /\ UNCHANGED <<coreVars, cacheVars, pagVars, batchVars, raceVars,
                      sharedVars, routeVars>>
    \/ ScrollStep /\ UNCHANGED <<coreVars, cacheVars, pagVars, batchVars, raceVars,
                      sharedVars, routeVars>>

ScrollSpecInit == Init /\ nProxies = 1

ScrollSpec == ScrollSpecInit /\ [][ScrollNext]_vars

\* one batch under every outcome of its URLs
BatchNext ==
    \/ BatchStart /\ UNCHANGED <<coreVars, cacheVars, pagVars, scrollVars, raceVars,
                      sharedVars, routeVars>>
    \/ BatchUrl /\ UNCHANGED <<coreVars, cacheVars, pagVars, scrollVars, raceVars,
                      sharedVars, routeVars>>

BatchSpecInit == Init /\ nProxies = 1

BatchSpec == BatchSpecInit /\ [][BatchNext]_vars

\* pairs of ProxyManager calls whose steps interleave
RaceRest ==
    <<rateVars, classifyVars, fetchVars, genVars, cacheVars, pagVars,
      scrollVars, batchVars, sharedVars, routeVars>>

RaceNext ==
    \/ RaceStart /\ UNCHANGED RaceRest
    \/ \E t \in Threads : MfRead(t) /\ UNCHANGED RaceRest
    \/ \E t \in Threads : MfWrite(t) /\ UNCHANGED RaceRest
    \/ \E t \in Threads : MfCheck(t) /\ UNCHANGED RaceRest
    \/ \E t \in Threads : RotRead(t) /\ UNCHANGED RaceRest
    \/ \E t \in Threads : RotWrite(t) /\ UNCHANGED RaceRest

RaceSpecInit == Init /\ nProxies = 2

RaceSpec == RaceSpecInit /\ [][RaceNext]_vars

\* two Indeed requests whose executor threads run at the same time
SharedNext ==
    \/ \E w \in Workers : WorkerGetDriver(w)
          /\ UNCHANGED <<coreVars, cacheVars, pagVars, scrollVars, batchVars,
                         raceVars, routeVars>>
    \/ \E w \in Workers : WorkerNavigate(w)
          /\ UNCHANGED <<coreVars, cacheVars, pagVars, scrollVars, batchVars,
                         raceVars, routeVars>>

SharedSpecInit == Init /\ nProxies = 1

SharedSpec == SharedSpecInit /\ [][SharedNext]_vars

\* requests to the cached routes while time passes
RouteNext ==
    \/ RouteRequest
         /\ UNCHANGED <<coreVars, pagVars, scrollVars, batchVars, raceVars,
                        sharedVars>>
    \/ CacheTick
         /\ UNCHANGED <<coreVars, pagVars, scrollVars, batchVars, raceVars,
                        sharedVars, routeVars>>

RouteSpecInit == Init /\ nProxies = 1

RouteSpec == RouteSpecInit /\ [][RouteNext]_vars

(***************************************************************************)
(* Claims about ProxyManager                                               *)
(***************************************************************************)

\* C1: after any sequence of rotate_proxy, mark_proxy_failure and
\* mark_proxy_success calls, the proxy returned by get_current_proxy has a
\* failure count strictly below max_failures.
C1_CurrentProxyHealthy ==
    proxy_failures[get_current_proxy] < max_failures

\* a failure report made some proxy unhealthy and the pool moved off it
C1_Witness ==
    /\ lastCall.op = "fail"
    /\ lastCall.arg = lastCall.pre.idx
    /\ proxy_failures[lastCall.arg] >= max_failures
    /\ get_current_proxy # lastCall.arg

AllHealthy == \A p \in Proxies : Healthy(proxy_failures, p)

\* C2: with all N proxies healthy, N consecutive rotate_proxy(force=True)
\* calls return every proxy exactly once, in cyclic list order starting
\* after the index the run started from, and leave the index where it
\* started.
C2_ForcedRotationVisitsAll ==
    (Len(runSeq) = nProxies /\ AllHealthy) =>
        /\ \A i \in 1 .. nProxies : runSeq[i] = (runStart + i) % nProxies
        /\ {runSeq[i] : i \in 1 .. nProxies} = Proxies
        /\ \A i, j \in 1 .. nProxies : runSeq[i] = runSeq[j] => i = j
        /\ current_proxy_index = runStart

\* three forced rotations of a 3-proxy pool that started at a non-zero index
C2_Witness ==
    /\ nProxies = 3
    /\ Len(runSeq) = 3
    /\ AllHealthy
    /\ runStart = 1
    /\ \E p \in Proxies : proxy_failures[p] > 0

\* C3: a rotation that examines the whole list without finding a proxy
\* below max_failures sets every failure count to 0 and selects index 0;
\* so once every proxy has been marked failed max_failures times, the
\* rotation made by the last of these calls leaves all counts at 0 and the
\* index at 0.
C3_ResetWhenAllUnhealthy ==
    /\ (/\ lastCall.op \in {"rotate", "fail"}
        /\ lastCall.examined = nProxies
        /\ \A p \in Proxies : ~Healthy(lastCall.entry.fails, p))
       => (/\ \A p \in Proxies : proxy_failures[p] = 0
           /\ current_proxy_index = 0
           /\ lastCall.reset)
    /\ (onlyFails /\ \A p \in Proxies : markCount[p] = max_failures)
       => (/\ \A p \in Proxies : proxy_failures[p] = 0
           /\ current_proxy_index = 0)

\* every proxy of a 3-proxy pool was marked failed max_failures times and the
\* scan of the last call started from a non-zero index
C3_Witness ==
    /\ nProxies = 3
    /\ onlyFails
    /\ \A p \in Proxies : markCount[p] = max_failures
    /\ lastCall.op = "fail"
    /\ lastCall.reset
    /\ lastCall.pre.idx # 0

\* C4: mark_proxy_failure(p) adds exactly one to p's failure count (the
\* count is only cleared again when the call ends in the pool-wide reset),
\* and when the count reaches max_failures while another proxy is healthy,
\* the current proxy on return is not p.
C4_FailureRotatesAway ==
    (lastCall.op = "fail" /\ lastCall.arg \in Proxies) =>
        LET p == lastCall.arg
            before == lastCall.pre.fails[p]
        IN /\ ~lastCall.reset => proxy_failures[p] = before + 1
           /\ lastCall.reset =>
                 /\ before + 1 >= max_failures
                 /\ \A q \in Proxies \ {p} : ~Healthy(lastCall.pre.fails, q)
           /\ (/\ before + 1 >= max_failures
               /\ \E q \in Proxies \ {p} : Healthy(lastCall.pre.fails, q))
              => get_current_proxy # p

\* the third failure of the current proxy of a 3-proxy pool switched proxies
C4_Witness ==
    /\ nProxies = 3
    /\ lastCall.op = "fail"
    /\ lastCall.arg = lastCall.pre.idx
    /\ lastCall.pre.fails[lastCall.arg] = max_failures - 1
    /\ proxy_failures[lastCall.arg] = max_failures
    /\ get_current_proxy # lastCall.arg
    /\ ~lastCall.reset


(***************************************************************************)
(* Claims about rate limiting                                              *)
(***************************************************************************)
Started(c) == cstart[c] >= 0

\* C6: the instants at which successive scrape_indeed_selenium callers leave
\* the rate-limit section are pairwise separated by at least MIN_DELAY plus
\* the jitter drawn by the later caller, whatever the arrival order.
C6_IndeedCallersSpaced ==
    \A a, b \in Callers :
        (/\ a # b
         /\ centry[a] = "indeed" /\ centry[b] = "indeed"
         /\ Started(a) /\ Started(b)
         /\ cstart[a] <= cstart[b])
        => cstart[b] - cstart[a] >= MIN_DELAY + cjitter[b]

\* three Indeed callers: the second left the section exactly MIN_DELAY plus
\* its full jitter after the first, the third is sleeping inside it
C6_Witness ==
    /\ \A c \in 1 .. 3 : centry[c] = "indeed"
    /\ Started(1) /\ Started(2)
    /\ cjitter[2] = JITTER_MAX
    /\ cstart[2] - cstart[1] = MIN_DELAY + JITTER_MAX
    /\ cpc[3] = "sleeping"

\* C7 as claimed: any two scrape starts, whichever entry points they come
\* from, are separated by at least MIN_DELAY.
C7_GlobalSpacing ==
    \A a, b \in Callers :
        (a # b /\ Started(a) /\ Started(b) /\ cstart[a] <= cstart[b])
        => cstart[b] - cstart[a] >= MIN_DELAY

\* C7 as amended: two scrape starts that come through the same one of
\* scrape_indeed_selenium, scrape_ziprecruiter and
\* scrape_ziprecruiter_enhanced are separated by at least MIN_DELAY.
C7_PerServiceSpacing ==
    \A a, b \in Callers :
        (/\ a # b
         /\ centry[a] = centry[b] /\ centry[a] \in Limited
         /\ Started(a) /\ Started(b)
         /\ cstart[a] <= cstart[b])
        => cstart[b] - cstart[a] >= MIN_DELAY

\* two ZipRecruiter starts exactly MIN_DELAY apart with a start of another
\* service strictly between them
C7_Witness ==
    \E a, b, c \in Callers :
        /\ centry[a] = "ziprecruiter" /\ centry[b] = "ziprecruiter"
        /\ centry[c] = "ziprecruiter_enhanced"
        /\ Started(a) /\ Started(b) /\ Started(c)
        /\ cstart[b] - cstart[a] = MIN_DELAY
        /\ cstart[a] < cstart[c] /\ cstart[c] < cstart[b]


(***************************************************************************)
(* Claims about block detection                                            *)
(***************************************************************************)
HasChallengeMarker(html) ==
    \/ html \cap {"Checking your browser",
                  "Enable JavaScript and cookies to continue"} # {}
    \/ {"challenge-platform", "<title>Just a moment"} \subseteq html

HasContentMarker(html) == html \cap IndeedMarkers # {}

\* C8: a fetched page is classified Blocked if and only if it carries a
\* positive challenge marker and none of the expected content markers; so a
\* page with a challenge and a content marker is Usable, one with only a
\* challenge marker is Blocked, and one with neither is Usable.
C8_BlockedIffChallengeWithoutContent ==
    verdict # "none" =>
        /\ verdict = "Blocked"
              <=> (HasChallengeMarker(page_html) /\ ~HasContentMarker(page_html))
        /\ verdict = "Usable"
              <=> (~HasChallengeMarker(page_html) \/ HasContentMarker(page_html))

\* the fixture of the claim: challenge text together with the results
\* container was classified Usable
C8_Witness ==
    /\ page_html = {"Checking your browser", "id=mosaic-provider-jobcards"}
    /\ verdict = "Usable"

(***************************************************************************)
(* Claims about the scrape sessions                                        *)
(***************************************************************************)

\* C5 as stated: when every fetched page is classified blocked, the fetch
\* loop makes exactly MAX_RETRIES navigations and then raises
\* CloudflareBlockedError, never a generic exception and never one more
\* navigation.
C5_ExactlyMaxRetriesNavigations ==
    /\ spc \in {"nav", "blocked"} => navs <= MAX_RETRIES
    /\ spc = "blocked" => navs = MAX_RETRIES
    /\ spc = "failed" => envFailed

\* C5: when every fetched page is classified blocked, the fetch loop makes
\* the first navigation and MAX_RETRIES retries, MAX_RETRIES + 1
\* navigations in all, and then raises CloudflareBlockedError; it ends with
\* a generic exception only when a browser call itself raised, and never
\* navigates a further time.
C5_MaxRetriesAfterFirstNavigation ==
    /\ spc = "nav" => navs = retries /\ retries <= MAX_RETRIES
    /\ spc = "blocked" => navs = MAX_RETRIES + 1 /\ retries = MAX_RETRIES
    /\ navs <= MAX_RETRIES + 1
    /\ spc = "failed" => envFailed

\* every page of a fetch loop was blocked, no browser call raised, and the
\* session ended with CloudflareBlockedError
C5_Witness ==
    /\ spc = "blocked"
    /\ navs = MAX_RETRIES + 1
    /\ ~envFailed

\* the fingerprints of the records of a list
Fingerprints(list) == {_create_job_id(list[i]) : i \in 1 .. Len(list)}
NoEqualFingerprints(list) ==
    \A i, k \in 1 .. Len(list) :
        _create_job_id(list[i]) = _create_job_id(list[k]) => i = k

\* C9: in one session a fingerprint, once seen, excludes every later record
\* with that fingerprint, on the same page or a later one, without an
\* error: the collected and the returned list never hold two records with
\* equal fingerprints, and they hold a record for exactly the fingerprints
\* whose first submitted record passed the filters.
C9_DedupByFingerprint ==
    /\ NoEqualFingerprints(jobs)
    /\ NoEqualFingerprints(result)
    /\ NoEqualFingerprints(all_jobs_before_filter)
    /\ seen_job_ids = {pr[1] : pr \in firstPass}
    /\ Fingerprints(jobs) = {pr[1] : pr \in {q \in firstPass : q[2]}}
    /\ spc = "returned" => result = jobs
    /\ (droppedSame \/ droppedCross) /\ spc = "failed" => envFailed

\* a session returned two records with different fingerprints after it had
\* dropped a repeat within a page and a repeat from an earlier page
C9_Witness ==
    /\ spc = "returned"
    /\ Len(result) >= 2
    /\ droppedSame
    /\ droppedCross

\* C10 as stated: no page is requested once the accepted records number
\* max_results, in the Indeed session and in the career-page scrape alike,
\* and neither returned list is longer than max_results.
C10_StopsAtMaxResults ==
    /\ ~fetchedAfterMax
    /\ ~pagedAfterMax
    /\ spc = "returned" => Len(result) <= max_results
    /\ gpc = "returned" => Len(gen_result) <= gen_max_results

\* C10: the Indeed session requests no result page and no detail page once
\* jobs holds max_results records; the career-page scrape collects up to
\* twice max_results records before filtering and requests no pagination
\* page once it holds that many; neither returned list is longer than
\* max_results.
C10_BoundedTraversal ==
    /\ ~fetchedAfterMax
    /\ Len(jobs) <= max_results
    /\ spc = "returned" => Len(result) <= max_results
    /\ ~pagedAfterTarget
    /\ gpc = "returned" => Len(gen_result) <= gen_max_results

\* a career-page scrape went on paginating with max_results returnable
\* records in hand and cut its list down to max_results
C10_Witness ==
    /\ gpc = "returned"
    /\ pagedAfterMax
    /\ gen_max_results > 0
    /\ Len(gen_jobs) > gen_max_results
    /\ Len(gen_result) = gen_max_results

(***************************************************************************)
(* Claims about the result cache                                           *)
(***************************************************************************)
\* the entry of key k is older than the ttl it was set with
Stale(k) == cache[k] # NoEntry /\ ctime - cache[k].ts > cache[k].ttl
\* this step is a get_cache(k) call
Reads(k) == lastGet'.seq # lastGet.seq /\ lastGet'.key = k

\* C11: get_cache(key) returns a value only if the entry's age since its
\* set_cache is at most the ttl given there, and then the value set; a read
\* of an older entry returns None and deletes the entry; nothing else
\* deletes an entry, so an entry that is not read stays in the map.
C11_ExpiryOnReadOnly ==
    [][\A k \in CacheKeys :
         /\ Reads(k) /\ lastGet'.ret # "None" =>
               /\ cache[k] # NoEntry
               /\ ctime - cache[k].ts <= cache[k].ttl
               /\ lastGet'.ret = cache[k].data
         /\ Reads(k) /\ Stale(k) =>
               /\ lastGet'.ret = "None"
               /\ cache'[k] = NoEntry
         /\ cache[k] # NoEntry /\ cache'[k] = NoEntry => Reads(k) /\ Stale(k)
      ]_vars

\* a read found an entry past its ttl, returned None and deleted it, while
\* another entry past its ttl, not read, is still in the map
C11_Witness ==
    /\ lastGet.key = "k1"
    /\ lastGet.entry # NoEntry
    /\ lastGet.at - lastGet.entry.ts > lastGet.entry.ttl
    /\ lastGet.ret = "None"
    /\ cache["k1"] = NoEntry
    /\ cache["k2"] # NoEntry
    /\ ctime - cache["k2"].ts > cache["k2"].ttl

(***************************************************************************)
(* Claims about pagination and scrolling                                   *)
(***************************************************************************)

\* C12: with numbered pagination, current page c and T pages,
\* handle_pagination navigates to c+1, c+2, ... in this order, never to
\* page c or an earlier page, and never beyond min(T, max_pages).
C12_NumberedTargetsFollowCurrent ==
    hp_type = "numbered" =>
        \A i \in 1 .. Len(nav_log) :
            /\ nav_log[i].target = hp_current + i
            /\ nav_log[i].target <= Min(hp_total, hp_max_pages)

\* the number of failed navigations at the end of log
RECURSIVE TrailingFailures(_)
TrailingFailures(log) ==
    IF log = <<>> \/ log[Len(log)].ok THEN 0
    ELSE 1 + TrailingFailures(SubSeq(log, 1, Len(log) - 1))

\* C13: next-only traversal goes on clicking while fewer than 2 failures
\* in a row have occurred (and the page cap is not reached) and stops at
\* the second failure in a row; a success sets the count back to zero, so
\* a failure followed by a success does not end the traversal.
C13_StopsAtTwoConsecutiveFailures ==
    hp_type = "next_only" /\ hpc # "idle" =>
        /\ hp_failures = TrailingFailures(nav_log)
        /\ TrailingFailures(nav_log) <= 2
        /\ hpc = "next_only" <=>
              /\ TrailingFailures(nav_log) < 2
              /\ hp_page_num < hp_max_pages
        /\ \A i \in 1 .. Len(nav_log) - 2 :
              nav_log[i].ok \/ nav_log[i + 1].ok

\* a failure, a success, then two failures in a row ended the traversal
\* below the page cap
C13_Witness ==
    /\ hp_type = "next_only"
    /\ hpc = "done"
    /\ Len(nav_log) = 4
    /\ ~nav_log[1].ok
    /\ nav_log[2].ok
    /\ ~nav_log[3].ok
    /\ ~nav_log[4].ok
    /\ hp_page_num < hp_max_pages

RECURSIVE TrailingNotHigher(_)
TrailingNotHigher(log) ==
    IF Len(log) < 2 \/ log[Len(log)] > log[Len(log) - 1] THEN 0
    ELSE 1 + TrailingNotHigher(SubSeq(log, 1, Len(log) - 1))

\* the number of readings at the end of log that equal the reading before
\* them
RECURSIVE TrailingUnchanged(_)
TrailingUnchanged(log) ==
    IF Len(log) < 2 \/ log[Len(log)] # log[Len(log) - 1] THEN 0
    ELSE 1 + TrailingUnchanged(SubSeq(log, 1, Len(log) - 1))

\* C14 as stated: scrolling stops after 2 scrolls in a row without a
\* height increase and never makes more than max_scrolls scrolls.
C14_StopsAfterTwoWithoutIncrease ==
    scpc # "idle" =>
        /\ Len(height_log) - 1 <= max_scrolls
        /\ scpc = "scrolling" => TrailingNotHigher(height_log) < 2

\* C14: scrolling stops after 2 scrolls in a row that leave the height
\* equal to the reading before, and never makes more than max_scrolls
\* scrolls; every other reading, higher or lower, sets the count back to
\* zero.
C14_StopsAfterTwoUnchanged ==
    scpc # "idle" =>
        /\ Len(height_log) - 1 <= max_scrolls
        /\ no_change_count = TrailingUnchanged(height_log)
        /\ TrailingUnchanged(height_log) <= 2
        /\ scpc = "scrolling" <=>
              /\ TrailingUnchanged(height_log) < 2
              /\ Len(height_log) - 1 < max_scrolls

\* the heights 1, 2, 2, 2: the traversal stopped at the second unchanged
\* reading with a scroll to spare
C14_Witness ==
    /\ scpc = "done"
    /\ height_log = <<1, 2, 2, 2>>
    /\ max_scrolls > 3

(***************************************************************************)
(* Claims about batches                                                    *)
(***************************************************************************)
\* the jobs returned by the first i URLs of the log, in order
RECURSIVE Collected(_, _)
Collected(log, i) ==
    IF i = 0 THEN <<>> ELSE Collected(log, i - 1) \o log[i].jobs

\* C16: a URL whose scrape raises does not end the batch: the batch ends
\* only after the last URL or once total_max_results jobs are collected,
\* and every job returned by the URLs that did not raise is represented in
\* the list the batch returns.
C16_FailureDoesNotAbortBatch ==
    /\ all_jobs = Collected(url_log, Len(url_log))
    /\ Len(url_log) <= n_urls
    /\ bpc = "done" =>
          /\ \/ Len(url_log) = n_urls
             \/ /\ total_max_results # 0
                /\ Len(all_jobs) >= total_max_results
          /\ \A i \in 1 .. Len(url_log) : \A k \in 1 .. Len(url_log[i].jobs) :
                \E r \in 1 .. Len(unique_jobs) :
                    job_key(unique_jobs[r]) = job_key(url_log[i].jobs[k])
          /\ \A r \in 1 .. Len(unique_jobs) :
                \E i \in 1 .. Len(all_jobs) : all_jobs[i] = unique_jobs[r]
    /\ bpc = "running" =>
          \A i \in 1 .. Len(url_log) :
              ~TotalReached(total_max_results, Collected(url_log, i))

\* the second of three URLs raised, the third was scraped all the same,
\* and the batch returned the jobs of the first and the third
C16_Witness ==
    /\ bpc = "done"
    /\ Len(url_log) = 3
    /\ ~url_log[1].raised /\ url_log[1].jobs = <<BJobQa>>
    /\ url_log[2].raised
    /\ ~url_log[3].raised /\ url_log[3].jobs = <<BJobDev>>
    /\ unique_jobs = <<BJobQa, BJobDev>>

\* C18: after mark_proxy_success(p) the failure count of p is 0, and the
\* failure count of every other proxy, the current index and the last
\* rotation time are what they were before the call.
C18_SuccessResetsOnlyThatProxy ==
    lastCall.op = "success" =>
        /\ lastCall.arg \in Proxies => proxy_failures[lastCall.arg] = 0
        /\ \A q \in Proxies \ {lastCall.arg} :
               proxy_failures[q] = lastCall.pre.fails[q]
        /\ current_proxy_index = lastCall.pre.idx
        /\ last_rotation_time = lastCall.pre.lrt

\* a proxy with failures was marked successful while another proxy had
\* failures too and the pool had rotated before
C18_Witness ==
    /\ lastCall.op = "success"
    /\ lastCall.arg \in Proxies
    /\ lastCall.pre.fails[lastCall.arg] > 0
    /\ \E q \in Proxies \ {lastCall.arg} : lastCall.pre.fails[q] > 0
    /\ lastCall.pre.idx > 0
    /\ lastCall.pre.lrt > 0

\* the proxy a rotation started at time t selects: the first healthy one
\* after the current index in list order, or index 0 when none is healthy
NextHealthy(s, n) ==
    LET cand == {k \in 1 .. n : Healthy(s.fails, (s.idx + k) % n)}
    IN IF cand = {} THEN 0
       ELSE (s.idx + (CHOOSE k \in cand : \A j \in cand : k <= j)) % n

\* C17: a get_driver call of a scrape, made with more than one proxy when
\* at least the rotation interval has elapsed since the last rotation,
\* moves the pool to the next healthy proxy and records the time of the
\* rotation, whatever the failure counts; a non-forced rotate_proxy made
\* before the interval has elapsed returns the current proxy and leaves
\* index, counts and rotation time unchanged.
C17_TimeBasedRotation ==
    [][/\ (GetDriver /\ nProxies > 1
             /\ now - last_rotation_time >= RotationInterval)
          => /\ current_proxy_index' = NextHealthy(PoolState, nProxies)
             /\ last_rotation_time' = now
             /\ driver' \in {current_proxy_index', -1}
             /\ (\A p \in Proxies : proxy_failures[p] = 0)
                   => current_proxy_index' = (current_proxy_index + 1) % nProxies
       /\ (now' = now /\ lastCall' # lastCall /\ lastCall'.op = "rotate"
             /\ ~lastCall'.force
             /\ now - last_rotation_time < RotationInterval)
          => /\ lastCall'.ret = current_proxy_index
             /\ current_proxy_index' = current_proxy_index
             /\ proxy_failures' = proxy_failures
             /\ last_rotation_time' = last_rotation_time
      ]_vars

\* get_driver rotated a pool without failures an interval after its
\* construction, and a non-forced rotate_proxy made right after it, before
\* another interval had elapsed, left the pool as it was
C17_Witness ==
    /\ nProxies = 2
    /\ driver = 1
    /\ lastCall.op = "rotate"
    /\ ~lastCall.force
    /\ lastCall.examined = 0
    /\ lastCall.pre.idx = 1
    /\ lastCall.pre.lrt = RotationInterval
    /\ \A p \in Proxies : lastCall.pre.fails[p] = 0
    /\ lastCall.ret = 1
    /\ now < 2 * RotationInterval

\* C15: when every record extracted from a page has a fingerprint seen
\* earlier in the session, the traversal ends at that page: the page adds
\* nothing to the accumulated jobs, no later page is fetched, and the call
\* returns the jobs accumulated before it.
C15_AllDuplicatesStopTraversal ==
    [][/\ (spc = "parse" /\ allDuplicates')
          => /\ spc' = "finish"
             /\ jobs' = jobs
             /\ page' = page
             /\ Len(jobs) <= max_results
             /\ all_jobs_before_filter' # <<>>
       /\ allDuplicates => navs' <= navs
       /\ (allDuplicates /\ spc = "finish" /\ spc' # "finish")
          => /\ spc' = "returned"
             /\ result' = jobs
      ]_vars

\* the second page repeated records of the first, and the jobs of the first
\* page were returned
C15_Witness ==
    /\ allDuplicates
    /\ spc = "returned"
    /\ page = 1
    /\ result # <<>>
    /\ result = jobs

\* C20: every blocked fetch attempt that is followed by another attempt
\* recreates the browser, increments the failure count of the proxy that
\* was in use and rotates the pool as rotate_proxy(force=True) does.
C20_BlockedRotatesAndMarksFailure ==
    [][(spc = "nav" /\ spc' = "nav" /\ retries' = retries + 1)
          => /\ driver' = current_proxy_index'
             /\ proxy_failures'[current_proxy_index]
                   = proxy_failures[current_proxy_index] + 1
             /\ current_proxy_index' = NextHealthy(PoolState, nProxies)
      ]_vars

\* C21: a failure of the browser session during the fetch of a page is
\* retried; the scrape fails during a fetch only when the retries of that
\* page are exhausted.
C21_RenderErrorRetried ==
    [][(spc = "nav" /\ spc' = "failed") => RetriesExhausted(retries)]_vars

\* C22 as stated: a numbered traversal that ended at a failed navigation
\* had two failed navigations in a row.
C22_NumberedAbortsAfterTwoFailures ==
    (hp_type = "numbered" /\ hpc = "done" /\ nav_log # <<>>
        /\ ~nav_log[Len(nav_log)].ok)
    => TrailingFailures(nav_log) >= 2

\* C22: a numbered traversal ends at its first failed navigation: a failed
\* navigation is the last one made, and no later page is targeted.
C22_NumberedAbortsAtFirstFailure ==
    hp_type = "numbered" =>
        /\ \A i \in 1 .. Len(nav_log) :
              ~nav_log[i].ok => (i = Len(nav_log) /\ hpc = "done")
        /\ TrailingFailures(nav_log) <= 1

\* the navigation to page 2 of 3 failed and page 3 was never targeted
C22_Witness ==
    /\ hp_type = "numbered"
    /\ hpc = "done"
    /\ hp_total = 3
    /\ hp_max_pages >= 3
    /\ nav_log = <<[target |-> 2, ok |-> FALSE]>>
    /\ scraped_pages = <<1>>

\* C23: after a pagination step of scrape_with_selenium every title that
\* the step saw for the first time belongs to a job of the job list.
C23_PageRecordsReachResult ==
    [][(gpc = "numbered" \/ gpc = "next_only")
          => (\A t \in seen_titles' \ seen_titles :
                 \E i \in 1 .. Len(gen_jobs') : gen_jobs'[i].title = t)
      ]_vars

\* C24 as stated: a caller that is sleeping out its delay does not hold the
\* lock of its rate limiter.
C24_LockFreeDuringSleep ==
    \A c \in Callers :
        cpc[c] = "sleeping" => lockHolder[centry[c]] # c

\* C24: a caller holds the lock of its rate limiter from the reading of
\* _last_fetch, through the sleep, to the update of _last_fetch: a sleeping
\* caller holds the lock, at most one caller per service sleeps, and the
\* lock is held by nobody but a sleeping caller.
C24_LockHeldAcrossSleep ==
    /\ \A c \in Callers :
          cpc[c] = "sleeping" => lockHolder[centry[c]] = c
    /\ \A a, b \in Callers :
          (cpc[a] = "sleeping" /\ cpc[b] = "sleeping" /\ centry[a] = centry[b])
          => a = b
    /\ \A m \in Limited :
          lockHolder[m] # 0 => cpc[lockHolder[m]] = "sleeping"

\* a caller sleeps holding the Indeed lock while a second caller, arrived
\* later, is queued on it
C24_Witness ==
    /\ cpc[1] = "sleeping" /\ centry[1] = "indeed"
    /\ lockHolder["indeed"] = 1
    /\ cpc[2] = "queued" /\ centry[2] = "indeed"
    /\ lockWaiters["indeed"] = <<2>>
    /\ clk < cwake[1]

\* the pool after call op made alone on pool s
Serial(s, op) ==
    LET r == IF op = "fail"
             THEN mark_proxy_failure(s, nProxies, now, s.idx)
             ELSE rotate_proxy(s, nProxies, now, TRUE)
    IN [idx |-> r.idx, fails |-> r.fails, lrt |-> r.lrt]

\* C25: when two concurrent ProxyManager calls have both returned, the pool
\* is what one of the two serial orders of the calls would have left.
C25_ConcurrentCallsSerializable ==
    (\A t \in Threads : tpc[t] = "done")
    => \/ PoolState = Serial(Serial(pool0, top[1]), top[2])
       \/ PoolState = Serial(Serial(pool0, top[2]), top[1])

\* C26: whenever the Indeed scraper is about to navigate or is reading a
\* page, its browser was created with the proxy that is current in the pool.
C26_DriverUsesCurrentProxy ==
    spc \in {"nav", "parse"} => driver = current_proxy_index

\* C27: a thread that is about to navigate holds a browser that nobody
\* has quit.
C27_NoWorkerUsesQuitDriver ==
    \A w \in Workers : wpc[w] = "nav" => wdriver[w] \in live

\* C28: mark_proxy_failure(p) for a proxy p that is not current leaves the
\* current index, the last rotation time and the failure counts of the
\* other proxies as they were.
C28_FailureOfOtherProxyKeepsRotation ==
    (lastCall.op = "fail" /\ lastCall.arg \in Proxies
        /\ lastCall.arg # lastCall.pre.idx)
    => /\ current_proxy_index = lastCall.pre.idx
       /\ last_rotation_time = lastCall.pre.lrt
       /\ \A q \in Proxies \ {lastCall.arg} :
              proxy_failures[q] = lastCall.pre.fails[q]

\* C29: a request that finds a result stored for its key within the TTL
\* is answered with that result and does not scrape, whatever the stored
\* result is; a request whose scrape raised leaves the cache without an
\* entry for its key.
C29_StoredResultServedFromCache ==
    lastReq.key # "none" =>
        /\ (lastReq.entry # NoEntry /\ ~Expired(lastReq.entry, lastReq.at))
           => (~lastReq.scraped /\ lastReq.ret = lastReq.entry.data)
        /\ (lastReq.raised /\ lastReq.at = ctime)
           => cache[lastReq.key] \in {NoEntry, lastReq.entry}

\* C30: a page that adds a record not seen before does not end the
\* traversal unless max_results or the page cap is reached: the search goes
\* on to fetch the next page.
C30_NewRecordsKeepTraversalGoing ==
    [][(spc = "parse" /\ Len(jobs') > Len(jobs))
          => \/ spc' = "nav"
             \/ Len(jobs') >= max_results
             \/ page' >= max_pages
      ]_vars

====
